---- MODULE Spec2Model ----
(***************************************************************************)
(* cargo-proxy-mirror: the multiplexed streaming tunnel between the mirror *)
(* (crates/mirror) and the proxy (crates/proxy), and the sessions that     *)
(* ride on it.                                                             *)
(*                                                                         *)
(* Mirror side: State / ProxyConnection (proxy_connection.rs) and the      *)
(* cache-miss path of the HTTP front end (mirror/src/main.rs).             *)
(* Proxy side: rx_process and the per-download tasks (proxy/src/main.rs).  *)
(*                                                                         *)
(* A request r \in Req is one cache-miss HTTP GET; a tunnel t \in Tun is   *)
(* one TCP connection a proxy opens to the mirror.  Fields that exist only *)
(* to state properties (which task emitted an opcode, what a queue has     *)
(* been handed so far) are marked "history".                               *)
(***************************************************************************)
EXTENDS Integers, Sequences, FiniteSets, TLC

\* ---------------------------------------------------------------- bounds
MaxReq == 2          \* HTTP cache-miss requests in a run
MaxTunnels == 2      \* tunnel connections a proxy opens in a run
MaxBlocks == 1       \* blocks the upstream body of one download is read in
\* mpsc::channel::<down_stream::Opcode>(8) in begin_download: the capacity is
\* scaled down so that a full delivery queue (a suspended send) is reached.
QueueCap == 2
\* last_mux is a u32 and wraps at 2^32; the id space is scaled down to
\* IdSpace values (ids 0 .. IdSpace - 1).
IdSpace == 8

MaxConn == 2         \* control-plane connections in a run
MaxCpReq == 2        \* requests clients send on the control plane in a run
MaxNames == 1        \* package names
MaxVersions == 2     \* versions of a package
MaxList == 2         \* entries of a CheckMissing list
SeqSpace == 2        \* values of Overlapped.sequence (a u32, scaled down)
MaxUploads == 2      \* entries of the tarball the cpm upload command sends
MaxFrames == 3       \* values sent on one framed connection
MaxMid == 4          \* characters of a request path between its first and last part
MaxOps == 3          \* opcodes that follow a session's Init
MaxAttempts == 6     \* calls of run_connection that are counted
MuxSpace == 2        \* values of last_mux where an id's reuse is looked at
MaxSessions == 3     \* sessions begun there
MaxEmit == 2         \* messages one download task emits there
MaxUris == 3         \* URIs the upstream registry answers

\* ------------------------------------------------------ program constants
UplinkCap == 8             \* mpsc::channel::<up_stream::Request>(8)
TX_QUEUE_LENGTH == 256     \* const TX_QUEUE_LENGTH

Req == 1..MaxReq
Tun == 1..MaxTunnels
NoTun == 0                 \* Option::None of State.uplink
NoReq == 0

\* ------------------------------------------------------------- data model
\* down_stream::Opcode.  src is history: the request whose download task
\* emitted the opcode, NoReq for the one reset_uplink_to's cleanup task sends.
Init_(headers, src) == [op |-> "Init", arg |-> headers, src |-> src]
Chunk(buffer, src) == [op |-> "Chunk", arg |-> buffer, src |-> src]
Complete(result, src) == [op |-> "Complete", arg |-> result, src |-> src]

IsCompleteOk(oc) == oc.op = "Complete" /\ oc.arg = "Ok"
IsCompleteErr(oc) == oc.op = "Complete" /\ oc.arg = "Err"

\* down_stream::Message and up_stream::Request
Message(session_id, opcode) == [session_id |-> session_id, opcode |-> opcode]
Request(session_id, package) == [session_id |-> session_id, package |-> package]

\* The upstream registry's answer for a package: headers, and the i-th block
\* of the body as response.data() yields it.  Blocks are distinct across
\* packages and positions, so a lost, repeated, reordered or misrouted block
\* shows in the bytes.
UpstreamHeaders(package) == [content_type |-> "gzip", content_length |-> 2 * MaxBlocks]
UpstreamBlock(package, i) == <<package, i>>

VARIABLES
    state,        \* mirror: State {last_mux, uplink, sessions} behind the Mutex
    servePc,      \* mirror: where ProxyConnection::serve is suspended
    curTun,       \* mirror: the tunnel whose inbound half serve is reading
    held,         \* mirror: process_receives' message and cloned sender while it sends
    cleanup,      \* mirror: per accept, the senders its detached cleanup task still has to notify
    tun,          \* per tunnel: "none", "pending" (in the listener's backlog), "active", "ended"
    upq,          \* per tunnel: requests from the uplink channel through the socket to rx_process
    upAlive,      \* per tunnel: the mirror's mp_process writer task still holds the channel's receiver
    downq,        \* per tunnel: messages from the TX channel through the socket to process_receives
    proxyUp,      \* per tunnel: the proxy's run_connection still runs (its rx_channel is alive)
    pc,           \* per request: where the HTTP handler is
    sid,          \* per request: the session id begin_download allocated
    heldUp,       \* per request: the uplink sender begin_download cloned
    queue,        \* per request: the session's delivery queue (mpsc channel of Opcode)
    status,       \* per request: the HTTP status of the response, 0 while none
    respHeaders,  \* per request: the Content-Type and Content-Length of the response under way
    body,         \* per request: the bytes handed to the HTTP response body
    sawOk,        \* per request: the body stream has consumed a Complete(Ok)
    task,         \* per request: where the proxy's download task for it is
    taskSid,      \* per task: DownloadStream.session_id
    taskTun,      \* per task: the tunnel whose TX channel DownloadStream.tx_channel is
    taskRead,     \* per task: blocks of the upstream body read so far
    log,          \* history, per request: every opcode enqueued on its delivery queue
    emitted,      \* history, per task: every opcode it put on the TX channel
    evicted,      \* history, per request: a tunnel reset moved its session out of the table
    warned,       \* history: the message process_receives read last was dropped as unknown
    cp,           \* the control plane (cli_server.rs) and the cache directory: a record, see CpInit
    cl,           \* the cpm client (cpm/src/main.rs): a record, see ClInit
    fr,           \* a framed connection (TcpSender / TcpReceiver): a record, see FrInit
    ep,           \* a cpm end point talking to the control-plane server: a record, see EpInit
    pf            \* a call of a function of the program, its input and result: a record

mirrorVars == <<state, servePc, curTun, held, cleanup>>
tunnelVars == <<tun, upq, upAlive, downq, proxyUp>>
httpVars == <<pc, sid, heldUp, queue, status, respHeaders, body, sawOk>>
taskVars == <<task, taskSid, taskTun, taskRead>>
historyVars == <<log, emitted, evicted>>
\* What the tunnel's steps do not touch, and the tunnel's own variables.
otherVars == <<cp, cl, fr, ep, pf>>
tunVars == <<mirrorVars, tunnelVars, httpVars, taskVars, historyVars, warned>>
vars == <<tunVars, otherVars>>

\* The receiver of request r's delivery queue exists and has not been dropped.
RxAlive(r) == pc[r] \in {"sending", "first", "stream"}

NoHeld == [to |-> NoReq]
\* The headers of a response that has none of the two.
NoHeaders == [content_type |-> "", content_length |-> 0]

Range(f) == {f[x] : x \in DOMAIN f}
Remove(f, k) == [x \in DOMAIN f \ {k} |-> f[x]]
EmptyMap == <<>>

\* The orders in which `for (_, tx) in sessions` can visit a moved-out map.
Orders(m) ==
    {o \in [1..Cardinality(DOMAIN m) -> DOMAIN m] :
        \A i, j \in DOMAIN o : i # j => o[i] # o[j]}

\* The tunnel and the HTTP cache-miss path after construction.
TunnelInit ==
    /\ state = [last_mux |-> 0, uplink |-> NoTun, sessions |-> EmptyMap]
    /\ servePc = "accept"
    /\ curTun = NoTun
    /\ held = NoHeld
    /\ cleanup = [t \in Tun |-> <<>>]
    /\ tun = [t \in Tun |-> "none"]
    /\ upq = [t \in Tun |-> <<>>]
    /\ upAlive = [t \in Tun |-> FALSE]
    /\ downq = [t \in Tun |-> <<>>]
    /\ proxyUp = [t \in Tun |-> FALSE]
    /\ pc = [r \in Req |-> "idle"]
    /\ sid = [r \in Req |-> 0]
    /\ heldUp = [r \in Req |-> NoTun]
    /\ queue = [r \in Req |-> <<>>]
    /\ status = [r \in Req |-> 0]
    /\ respHeaders = [r \in Req |-> NoHeaders]
    /\ body = [r \in Req |-> <<>>]
    /\ sawOk = [r \in Req |-> FALSE]
    /\ task = [r \in Req |-> "none"]
    /\ taskSid = [r \in Req |-> 0]
    /\ taskTun = [r \in Req |-> NoTun]
    /\ taskRead = [r \in Req |-> 0]
    /\ log = [r \in Req |-> <<>>]
    /\ emitted = [r \in Req |-> <<>>]
    /\ evicted = [r \in Req |-> FALSE]
    /\ warned = FALSE

\* ------------------------------------------- control plane: data model
Conn == 1..MaxConn
\* cpm_api::PackageId.  Names and versions are numbered.
PackageId(name, version) == [name |-> name, version |-> version]
Name == 1..MaxNames
PackageIds == {PackageId(n, v) : n \in Name, v \in 1..MaxVersions}
\* Overlapped.sequence is a u32; the values are scaled down to 0 .. SeqSpace - 1.
SeqVals == 0..(SeqSpace - 1)
\* The content the client of a connection uploads: of different lengths
\* and with no byte in common from one connection to the other.
FileBytes(c) == IF c = 1 THEN <<1, 2>> ELSE <<3>>

\* cpm_api::Request, cpm_api::Response, cpm_api::Overlapped
CheckMissing(packages) == [type |-> "CheckMissing", packages |-> packages]
UploadCrate(package, content) == [type |-> "UploadCrate", package |-> package, content |-> content]
Response_CheckMissing(packages) == [type |-> "CheckMissing", packages |-> packages]
Response_UploadCrate == [type |-> "UploadCrate"]
NotImplemented == [type |-> "NotImplemented"]
Ok(value) == [ok |-> TRUE, value |-> value]
Err(error) == [ok |-> FALSE, value |-> error]
Overlapped(sequence, payload) == [sequence |-> sequence, payload |-> payload]
NoRequest == [sequence |-> 0, payload |-> [type |-> "none"]]

\* What a path of the cache directory is.
NoFile == [kind |-> "none", bytes |-> <<>>]
Directory == [kind |-> "dir", bytes |-> <<>>]
RegularFile(bytes) == [kind |-> "file", bytes |-> bytes]
\* Path::exists: true of whatever is there, a directory as well as a file.
exists(entry) == entry.kind # "none"

NoServed == [package |-> PackageId(0, 0), bytes |-> <<>>]

\* The value of cp, cl or fr in a specification that does not run that part.
Off == [on |-> FALSE]

Init == TunnelInit /\ cp = Off /\ cl = Off /\ fr = Off /\ ep = Off /\ pf = Off


\* ------------------------------------------------- mirror: State methods
\* add_session with the bumped last_mux never stored and the vacancy check
\* left out: the id after last_mux is handed out again and again, and the
\* insert replaces the entry that is there.
add_session_no_bump(st, tx) ==
    LET session_id == (st.last_mux + 1) % IdSpace
    IN  [state |-> [st EXCEPT !.sessions =
                        [x \in DOMAIN st.sessions \cup {session_id} |->
                            IF x = session_id THEN tx ELSE st.sessions[x]]],
         session_id |-> session_id]

\* State::add_session: bump last_mux until the id is vacant, insert tx there.
\* The result is the state after the call and the id returned.
RECURSIVE add_session(_, _)
add_session(st, tx) ==
    LET session_id == (st.last_mux + 1) % IdSpace
        st1 == [st EXCEPT !.last_mux = session_id]
    IN  IF session_id \in DOMAIN st.sessions
        THEN add_session(st1, tx)
        ELSE [state |-> [st1 EXCEPT !.sessions = st.sessions @@ (session_id :> tx)],
              session_id |-> session_id]

\* reset_uplink_to without the take of the session map: the new channel
\* becomes the uplink, the table is left as it is and no cleanup is spawned.
reset_uplink_to_no_take(st, stream) ==
    [state |-> [st EXCEPT !.uplink = stream], moved |-> EmptyMap]

\* reset_uplink_to that does not replace a prior uplink: the sessions are
\* moved out, but the old channel stays the uplink.
reset_uplink_to_keep_prior(st, stream) ==
    IF st.uplink # NoTun
    THEN [state |-> [st EXCEPT !.sessions = EmptyMap], moved |-> st.sessions]
    ELSE [state |-> [st EXCEPT !.uplink = stream], moved |-> EmptyMap]

\* State::reset_uplink_to: with a prior uplink, the session map is moved out
\* for the detached cleanup task and the table is left empty; then the new
\* tunnel's channel becomes the uplink.  The result is the state after the
\* call and the map the cleanup task was spawned with.
reset_uplink_to(st, stream) ==
    LET moved == IF st.uplink # NoTun THEN st.sessions ELSE EmptyMap
        st1 == IF st.uplink # NoTun
               THEN [st EXCEPT !.uplink = NoTun, !.sessions = EmptyMap]
               ELSE st
    IN  [state |-> [st1 EXCEPT !.uplink = stream], moved |-> moved]

\* A send on request r's delivery queue has room (the sender is not parked).
HasRoom(r) == Len(queue[r]) < QueueCap

\* Sender::send(opcode) on request r's delivery queue, receiver alive.
Enqueue(r, opcode) ==
    /\ queue' = [queue EXCEPT ![r] = Append(@, opcode)]
    /\ log' = [log EXCEPT ![r] = Append(@, opcode)]

\* ------------------------------------------------ mirror: serve / accept
\* serve with process_receives not awaited to its end: the next accept() and
\* reset run while the previous connection's process_receives is still
\* suspended in sender.send(opcode), which then completes after the reset.
Accept_unawaited ==
    /\ servePc \in {"accept", "send"}
    /\ \E t \in Tun :
        /\ tun[t] = "pending"
        /\ \A u \in Tun : u < t => tun[u] # "pending"
        /\ LET res == reset_uplink_to(state, t)
           IN  /\ state' = res.state
               /\ \E o \in Orders(res.moved) :
                    cleanup' = [cleanup EXCEPT ![t] = [i \in DOMAIN o |-> res.moved[o[i]]]]
               /\ evicted' = [r \in Req |-> evicted[r] \/ (r \in Range(res.moved) /\ RxAlive(r))]
        /\ tun' = [u \in Tun |-> IF u = t THEN "active"
                                 ELSE IF tun[u] = "active" THEN "ended" ELSE tun[u]]
        /\ upAlive' = [upAlive EXCEPT ![t] = TRUE]
        /\ curTun' = t
    /\ servePc' = IF servePc = "send" THEN "send" ELSE "next"
    /\ UNCHANGED <<held, upq, downq, proxyUp, httpVars, taskVars, log, emitted>>
    /\ UNCHANGED <<warned, otherVars>>

\* serve: listener.accept() returns the oldest connection of the backlog;
\* reset_uplink_to runs under the lock; serve then enters process_receives.
Accept ==
    /\ servePc = "accept"
    /\ \E t \in Tun :
        /\ tun[t] = "pending"
        /\ \A u \in Tun : u < t => tun[u] # "pending"
        /\ LET res == reset_uplink_to(state, t)
           IN  /\ state' = res.state
               /\ \E o \in Orders(res.moved) :
                    cleanup' = [cleanup EXCEPT ![t] = [i \in DOMAIN o |-> res.moved[o[i]]]]
               /\ evicted' = [r \in Req |-> evicted[r] \/ (r \in Range(res.moved) /\ RxAlive(r))]
        /\ tun' = [tun EXCEPT ![t] = "active"]
        /\ upAlive' = [upAlive EXCEPT ![t] = TRUE]
        /\ curTun' = t
    /\ servePc' = "next"
    /\ UNCHANGED <<held, upq, downq, proxyUp, httpVars, taskVars, log, emitted>>
    /\ UNCHANGED <<warned, otherVars>>

\* The cleanup task spawned by reset_uplink_to: one
\* tx.send(Complete(Err(Unspecified))).await per moved-out sender, in order;
\* a send error (receiver dropped) is logged and the loop goes on.
CleanupStep(t) ==
    /\ cleanup[t] # <<>>
    /\ LET r == Head(cleanup[t])
       IN  IF RxAlive(r)
           THEN /\ HasRoom(r)
                /\ Enqueue(r, Complete("Err", NoReq))
           ELSE UNCHANGED <<queue, log>>
    /\ cleanup' = [cleanup EXCEPT ![t] = Tail(@)]
    /\ UNCHANGED <<state, servePc, curTun, held, tunnelVars, pc, sid, heldUp, status, respHeaders,
                   body, sawOk, taskVars, emitted, evicted>>
    /\ UNCHANGED <<warned, otherVars>>

\* process_receives with the session looked up by a stale key: a message
\* whose id is not in the table is handed to the entry allocated last.
InboundNext_misrouted ==
    /\ servePc = "next"
    /\ downq[curTun] # <<>>
    /\ LET m == Head(downq[curTun])
           id == IF m.session_id \in DOMAIN state.sessions THEN m.session_id
                 ELSE state.last_mux
       IN  IF id \in DOMAIN state.sessions
           THEN /\ held' = [to |-> state.sessions[id],
                            session_id |-> id, opcode |-> m.opcode]
                /\ servePc' = "send"
                /\ warned' = FALSE
           ELSE /\ held' = held
                /\ servePc' = servePc
                /\ warned' = TRUE
    /\ downq' = [downq EXCEPT ![curTun] = Tail(@)]
    /\ UNCHANGED <<state, curTun, cleanup, tun, upq, upAlive, proxyUp, httpVars,
                   taskVars, historyVars>>
    /\ UNCHANGED otherVars

\* process_receives: stream.next() yields a message; the session's sender is
\* looked up under the lock and cloned, or the message is dropped as unknown.
InboundNext ==
    /\ servePc = "next"
    /\ downq[curTun] # <<>>
    /\ LET m == Head(downq[curTun])
       IN  IF m.session_id \in DOMAIN state.sessions
           THEN /\ held' = [to |-> state.sessions[m.session_id],
                            session_id |-> m.session_id, opcode |-> m.opcode]
                /\ servePc' = "send"
                /\ warned' = FALSE
           ELSE /\ held' = held
                /\ servePc' = servePc
                /\ warned' = TRUE
    /\ downq' = [downq EXCEPT ![curTun] = Tail(@)]
    /\ UNCHANGED <<state, curTun, cleanup, tun, upq, upAlive, proxyUp, httpVars,
                   taskVars, historyVars>>
    /\ UNCHANGED otherVars

\* process_receives with the failed send only logged: the entry of a session
\* whose receiver is gone stays in the table.
InboundSend_no_remove ==
    /\ servePc = "send"
    /\ LET r == held.to
       IN  IF RxAlive(r)
           THEN /\ HasRoom(r)
                /\ Enqueue(r, held.opcode)
           ELSE UNCHANGED <<queue, log>>
    /\ state' = state
    /\ held' = NoHeld
    /\ servePc' = "next"
    /\ UNCHANGED <<curTun, cleanup, tunnelVars, pc, sid, heldUp, status, respHeaders, body, sawOk,
                   taskVars, emitted, evicted>>
    /\ UNCHANGED <<warned, otherVars>>

\* process_receives: sender.send(opcode).await completes: the opcode is
\* enqueued, or the receiver is gone and the session entry is removed.
InboundSend ==
    /\ servePc = "send"
    /\ LET r == held.to
       IN  IF RxAlive(r)
           THEN /\ HasRoom(r)
                /\ Enqueue(r, held.opcode)
                /\ state' = state
           ELSE /\ state' = IF held.session_id \in DOMAIN state.sessions
                            THEN [state EXCEPT !.sessions = Remove(@, held.session_id)]
                            ELSE state
                /\ UNCHANGED <<queue, log>>
    /\ held' = NoHeld
    /\ servePc' = "next"
    /\ UNCHANGED <<curTun, cleanup, tunnelVars, pc, sid, heldUp, status, respHeaders, body, sawOk,
                   taskVars, emitted, evicted>>
    /\ UNCHANGED <<warned, otherVars>>

\* process_receives: stream.next() returns None (zero-length frame) or an
\* error; process_receives returns and serve goes back to accept().  The
\* TcpReceiver is dropped, and what the socket still held is never read.
InboundEnd ==
    /\ servePc = "next"
    /\ servePc' = "accept"
    /\ tun' = [tun EXCEPT ![curTun] = "ended"]
    /\ downq' = [downq EXCEPT ![curTun] = <<>>]
    /\ UNCHANGED <<state, curTun, held, cleanup, upq, upAlive, proxyUp,
                   httpVars, taskVars, historyVars>>
    /\ warned' = FALSE
    /\ UNCHANGED otherVars

\* ------------------------------------------- mirror: HTTP cache-miss path
\* The handler ends with HTTP status code (0: no response was sent): its
\* receiver, and what the queue still buffers, is dropped.  What is recorded
\* about a request beyond its status is kept for a live handler only.
Finish(r, code) ==
    /\ pc' = [pc EXCEPT ![r] = "done"]
    /\ status' = [status EXCEPT ![r] = code]
    /\ respHeaders' = [respHeaders EXCEPT ![r] = NoHeaders]
    /\ queue' = [queue EXCEPT ![r] = <<>>]
    /\ body' = [body EXCEPT ![r] = <<>>]
    /\ sawOk' = [sawOk EXCEPT ![r] = FALSE]
    /\ heldUp' = [heldUp EXCEPT ![r] = NoTun]
    /\ log' = [log EXCEPT ![r] = <<>>]
    /\ evicted' = [evicted EXCEPT ![r] = FALSE]

\* begin_download, the critical section: without an uplink fail with NoUplink
\* (proxy_download maps every error to 404); else clone the uplink, create
\* the session's channel and allocate its id.  Requests are numbered in the
\* order they take the lock.
begin_download(r) ==
    /\ pc[r] = "idle"
    /\ r > 1 => pc[r - 1] # "idle"
    /\ IF state.uplink # NoTun
       THEN LET res == add_session(state, r)
            IN  /\ state' = res.state
                /\ sid' = [sid EXCEPT ![r] = res.session_id]
                /\ heldUp' = [heldUp EXCEPT ![r] = state.uplink]
                /\ pc' = [pc EXCEPT ![r] = "sending"]
                /\ UNCHANGED <<status, respHeaders, sawOk, queue, body, log, evicted>>
       ELSE /\ Finish(r, 404)
            /\ UNCHANGED <<state, sid>>
    /\ UNCHANGED <<servePc, curTun, held, cleanup, tunnelVars, taskVars, emitted>>
    /\ UNCHANGED <<warned, otherVars>>

\* begin_download, after the lock: uplink.send(Request).await on the cloned
\* sender.  It fails (UpLinkReset, 404) when the channel's receiver is gone.
\* A request written to a connection whose other end is gone is read by no one.
uplink_send(r) ==
    /\ pc[r] = "sending"
    /\ IF upAlive[heldUp[r]]
       THEN /\ Len(upq[heldUp[r]]) < UplinkCap
            /\ upq' = [upq EXCEPT ![heldUp[r]] =
                            IF proxyUp[heldUp[r]] THEN Append(@, Request(sid[r], r)) ELSE @]
            /\ pc' = [pc EXCEPT ![r] = "first"]
            /\ UNCHANGED <<status, respHeaders, sawOk, queue, body, heldUp, log, evicted>>
       ELSE /\ Finish(r, 404)
            /\ upq' = upq
    /\ UNCHANGED <<mirrorVars, tun, upAlive, downq, proxyUp, sid, taskVars, emitted>>
    /\ UNCHANGED <<warned, otherVars>>

\* proxy_download with the Content-Length left at the builder's default.
builder_headers_no_length(headers) ==
    [content_type |-> headers.content_type, content_length |-> 0]

\* proxy_download: the two inserts into builder.headers_mut().
builder_headers(headers) ==
    [content_type |-> headers.content_type, content_length |-> headers.content_length]

\* proxy_download: the first stream.next().  Init(headers) starts a 200
\* response whose body is the rest of the stream; anything else is a 500.
proxy_download_first(r) ==
    /\ pc[r] = "first"
    /\ queue[r] # <<>>
    /\ IF Head(queue[r]).op = "Init"
       THEN /\ pc' = [pc EXCEPT ![r] = "stream"]
            /\ status' = [status EXCEPT ![r] = 200]
            /\ respHeaders' = [respHeaders EXCEPT ![r] = builder_headers(Head(queue[r]).arg)]
            /\ queue' = [queue EXCEPT ![r] = Tail(@)]
            /\ UNCHANGED <<sawOk, body, heldUp, log, evicted>>
       ELSE Finish(r, 500)
    /\ UNCHANGED <<mirrorVars, tunnelVars, sid, taskVars, emitted>>
    /\ UNCHANGED <<warned, otherVars>>

\* The filter_map closure with the first two arms' results swapped: a Chunk
\* yields nothing and Complete(Ok) is not told apart from it.
filter_map_chunk_dropped(oc) ==
    CASE oc.op = "Chunk" -> [item |-> "None"]
      [] IsCompleteOk(oc) -> [item |-> "None"]
      [] OTHER -> [item |-> "Err"]

\* proxy_download: the closure of stream.filter_map.  A Chunk is a body item
\* (Some(Ok(data))), Complete(Ok) yields nothing (None), anything else is a
\* stream error (Some(Err(Unspecified))).
filter_map(oc) ==
    CASE oc.op = "Chunk" -> [item |-> "Ok", data |-> oc.arg]
      [] IsCompleteOk(oc) -> [item |-> "None"]
      [] OTHER -> [item |-> "Err"]

\* proxy_download: the response body polls the rest of the stream through
\* filter_map; on a stream error the response is aborted and the stream
\* (the receiver) dropped.
proxy_download_body(r) ==
    /\ pc[r] = "stream"
    /\ queue[r] # <<>>
    /\ LET oc == Head(queue[r])
           it == filter_map(oc)
       IN  CASE it.item = "Ok" ->
                    /\ body' = [body EXCEPT ![r] = @ \o it.data]
                    /\ queue' = [queue EXCEPT ![r] = Tail(@)]
                    /\ UNCHANGED <<pc, status, respHeaders, sawOk, heldUp, log, evicted>>
             [] it.item = "None" ->
                    /\ sawOk' = [sawOk EXCEPT ![r] = sawOk[r] \/ IsCompleteOk(oc)]
                    /\ queue' = [queue EXCEPT ![r] = Tail(@)]
                    /\ UNCHANGED <<pc, status, respHeaders, body, heldUp, log, evicted>>
             [] OTHER ->
                    Finish(r, status[r])
    /\ UNCHANGED <<mirrorVars, tunnelVars, sid, taskVars, emitted>>
    /\ UNCHANGED <<warned, otherVars>>

\* The HTTP client goes away, or the response is finished with: the handler
\* future or the body stream is dropped, and the receiver with it.
client_drop(r) ==
    /\ pc[r] \in {"first", "stream"}
    /\ Finish(r, status[r])
    /\ UNCHANGED <<mirrorVars, tunnelVars, sid, taskVars, emitted>>
    /\ UNCHANGED <<warned, otherVars>>

\* ------------------------------------------------------------ the tunnel
\* A proxy's TcpStream::connect succeeds: the connection waits in the
\* listener's backlog and run_connection starts.  run_for_a_while calls
\* run_connection again only after the previous call has returned.
run_connection(t) ==
    /\ tun[t] = "none"
    /\ t > 1 => tun[t - 1] # "none" /\ ~proxyUp[t - 1]
    /\ tun' = [tun EXCEPT ![t] = "pending"]
    /\ proxyUp' = [proxyUp EXCEPT ![t] = TRUE]
    /\ UNCHANGED <<mirrorVars, upq, upAlive, downq, httpVars, taskVars, historyVars>>
    /\ UNCHANGED <<warned, otherVars>>

\* run_connection's select! resolves (an I/O error, end of stream, shutdown):
\* rx_process and the TX task are dropped, and the TX channel's receiver with
\* them; requests not yet read are never read.  Download tasks already
\* spawned go on running.
run_connection_end(t) ==
    /\ proxyUp[t]
    /\ proxyUp' = [proxyUp EXCEPT ![t] = FALSE]
    /\ upq' = [upq EXCEPT ![t] = <<>>]
    /\ UNCHANGED <<mirrorVars, tun, upAlive, downq, httpVars, taskVars, historyVars>>
    /\ UNCHANGED <<warned, otherVars>>

\* The mirror's writer task (mp_process over the uplink channel) fails on a
\* socket write and ends, dropping the channel's receiver.  A write fails
\* only once the connection's other end is gone; the end of the task shows
\* only while a sender of the channel is left.
uplink_writer_end(t) ==
    /\ upAlive[t]
    /\ ~proxyUp[t]
    /\ state.uplink = t \/ \E r \in Req : pc[r] = "sending" /\ heldUp[r] = t
    /\ upAlive' = [upAlive EXCEPT ![t] = FALSE]
    /\ UNCHANGED <<mirrorVars, tun, upq, downq, proxyUp, httpVars, taskVars, historyVars>>
    /\ UNCHANGED <<warned, otherVars>>

\* -------------------------------------------------- proxy: download worker
\* rx_process: a Request arrives; a download task is spawned with a
\* DownloadStream holding the request's session_id and a clone of tx_channel.
rx_process(t) ==
    /\ proxyUp[t]
    /\ upq[t] # <<>>
    /\ LET rq == Head(upq[t])
       IN  /\ task' = [task EXCEPT ![rq.package] = "get"]
           /\ taskSid' = [taskSid EXCEPT ![rq.package] = rq.session_id]
           /\ taskTun' = [taskTun EXCEPT ![rq.package] = t]
    /\ upq' = [upq EXCEPT ![t] = Tail(@)]
    /\ UNCHANGED <<mirrorVars, tun, upAlive, downq, proxyUp, httpVars, taskRead, historyVars>>
    /\ UNCHANGED <<warned, otherVars>>

\* The TX channel of request r's download task accepts a send.
TxAlive(r) == proxyUp[taskTun[r]]

\* send_message with each send handed to a task of its own: a later message
\* can get onto the TX channel ahead of an earlier one.
send_message_overtakes(r, opcode) ==
    /\ Len(downq[taskTun[r]]) < TX_QUEUE_LENGTH
    /\ downq' = [downq EXCEPT ![taskTun[r]] =
                    IF tun[taskTun[r]] = "ended" THEN @ ELSE <<Message(taskSid[r], opcode)>> \o @]
    /\ emitted' = [emitted EXCEPT ![r] = Append(@, opcode)]

\* send_message with the session id kept in one place for all tasks of the
\* connection, rx_process overwriting it at each Request: every message
\* carries the id of the latest request.
send_message_shared_sid(r, opcode) ==
    /\ Len(downq[taskTun[r]]) < TX_QUEUE_LENGTH
    /\ LET latest == CHOOSE i \in { taskSid[q] : q \in Req } : \A q \in Req : taskSid[q] <= i
       IN  downq' = [downq EXCEPT ![taskTun[r]] =
                    IF tun[taskTun[r]] = "ended" THEN @ ELSE Append(@, Message(latest, opcode))]
    /\ emitted' = [emitted EXCEPT ![r] = Append(@, opcode)]

\* DownloadStream::send_message on a live TX channel.  What the TX task writes
\* after the mirror stopped reading the connection is read by no one.
send_message(r, opcode) ==
    /\ Len(downq[taskTun[r]]) < TX_QUEUE_LENGTH
    /\ downq' = [downq EXCEPT ![taskTun[r]] =
                    IF tun[taskTun[r]] = "ended" THEN @ ELSE Append(@, Message(taskSid[r], opcode))]
    /\ emitted' = [emitted EXCEPT ![r] = Append(@, opcode)]

\* The task's last step with the result reported twice: send_complete at the
\* end of do_download and a send_failed after it.
send_last_twice(r, result) ==
    /\ IF TxAlive(r)
       THEN /\ Len(downq[taskTun[r]]) + 1 < TX_QUEUE_LENGTH
            /\ downq' = [downq EXCEPT ![taskTun[r]] =
                    IF tun[taskTun[r]] = "ended" THEN @
                    ELSE @ \o <<Message(taskSid[r], Complete(result, r)),
                                Message(taskSid[r], Complete("Err", r))>>]
            /\ emitted' = [emitted EXCEPT ![r] =
                    @ \o <<Complete(result, r), Complete("Err", r)>>]
       ELSE UNCHANGED <<downq, emitted>>
    /\ task' = [task EXCEPT ![r] = "done"]

\* The task's last step with only a failure reported: the Ok arm of
\* rx_process' match sends nothing.
send_last_failure_only(r, result) ==
    /\ IF TxAlive(r) /\ result = "Err"
       THEN send_message(r, Complete(result, r))
       ELSE UNCHANGED <<downq, emitted>>
    /\ task' = [task EXCEPT ![r] = "done"]

\* The task's last step: send_complete / send_failed, whose own failure is
\* only logged.
send_last(r, result) ==
    /\ IF TxAlive(r)
       THEN send_message(r, Complete(result, r))
       ELSE UNCHANGED <<downq, emitted>>
    /\ task' = [task EXCEPT ![r] = "done"]

\* download_file fails before any header is sent (a hyper error, a status
\* that is neither success nor redirect, a bad redirect, a bad or missing
\* header): rx_process' task sends Complete(Err(Unspecified)).
download_failed(r) ==
    /\ task[r] = "get"
    /\ send_last(r, "Err")
    /\ UNCHANGED <<mirrorVars, tun, upq, upAlive, proxyUp, httpVars, taskSid, taskTun,
                   taskRead, log, evicted>>
    /\ UNCHANGED <<warned, otherVars>>

\* do_download: the headers are there; Init(headers) is sent.  A failed send
\* is an error of download_file, and the send_failed after it fails as well.
do_download_init(r) ==
    /\ task[r] = "get"
    /\ IF TxAlive(r)
       THEN /\ send_message(r, Init_(UpstreamHeaders(r), r))
            /\ task' = [task EXCEPT ![r] = "body"]
       ELSE /\ task' = [task EXCEPT ![r] = "done"]
            /\ UNCHANGED <<downq, emitted>>
    /\ UNCHANGED <<mirrorVars, tun, upq, upAlive, proxyUp, httpVars, taskSid, taskTun,
                   taskRead, log, evicted>>
    /\ UNCHANGED <<warned, otherVars>>

\* do_download: response.data() yields the next block, sent as a Chunk.
do_download_chunk(r) ==
    /\ task[r] = "body"
    /\ taskRead[r] < MaxBlocks
    /\ IF TxAlive(r)
       THEN /\ send_message(r, Chunk(UpstreamBlock(r, taskRead[r] + 1), r))
            /\ taskRead' = [taskRead EXCEPT ![r] = @ + 1]
            /\ task' = task
       ELSE /\ task' = [task EXCEPT ![r] = "done"]
            /\ UNCHANGED <<downq, emitted, taskRead>>
    /\ UNCHANGED <<mirrorVars, tun, upq, upAlive, proxyUp, httpVars, taskSid, taskTun,
                   log, evicted>>
    /\ UNCHANGED <<warned, otherVars>>

\* do_download: response.data() yields an error; the task sends Complete(Err).
do_download_error(r) ==
    /\ task[r] = "body"
    /\ send_last(r, "Err")
    /\ UNCHANGED <<mirrorVars, tun, upq, upAlive, proxyUp, httpVars, taskSid, taskTun,
                   taskRead, log, evicted>>
    /\ UNCHANGED <<warned, otherVars>>

\* do_download: response.data() yields None (clean end of the body); the
\* task sends Complete(Ok).
do_download_eof(r) ==
    /\ task[r] = "body"
    /\ send_last(r, "Ok")
    /\ UNCHANGED <<mirrorVars, tun, upq, upAlive, proxyUp, httpVars, taskSid, taskTun,
                   taskRead, log, evicted>>
    /\ UNCHANGED <<warned, otherVars>>

\* ------------------------------------------------------- the specification
Next ==
    \/ Accept
    \/ InboundNext
    \/ InboundSend
    \/ InboundEnd
    \/ \E t \in Tun : CleanupStep(t)
    \/ \E t \in Tun : run_connection(t)
    \/ \E t \in Tun : run_connection_end(t)
    \/ \E t \in Tun : uplink_writer_end(t)
    \/ \E t \in Tun : rx_process(t)
    \/ \E r \in Req : begin_download(r)
    \/ \E r \in Req : uplink_send(r)
    \/ \E r \in Req : proxy_download_first(r)
    \/ \E r \in Req : proxy_download_body(r)
    \/ \E r \in Req : client_drop(r)
    \/ \E r \in Req : download_failed(r)
    \/ \E r \in Req : do_download_init(r)
    \/ \E r \in Req : do_download_chunk(r)
    \/ \E r \in Req : do_download_error(r)
    \/ \E r \in Req : do_download_eof(r)

Spec == Init /\ [][Next]_vars

\* The steps the tokio runtime schedules: a task that can run does run.  What
\* the world decides is left unfair: a proxy connecting, a connection ending,
\* a socket write failing, an HTTP client going away or arriving.
TaskStep(r) ==
    \/ download_failed(r)
    \/ do_download_init(r)
    \/ do_download_chunk(r)
    \/ do_download_error(r)
    \/ do_download_eof(r)
Fairness ==
    /\ WF_vars(Accept)
    /\ WF_vars(InboundNext)
    /\ WF_vars(InboundSend)
    /\ \A t \in Tun : WF_vars(CleanupStep(t)) /\ WF_vars(rx_process(t))
    /\ \A r \in Req :
        /\ WF_vars(uplink_send(r))
        /\ WF_vars(proxy_download_first(r))
        /\ WF_vars(proxy_download_body(r))
        /\ WF_vars(TaskStep(r))
\* The steps of behaviours in which no HTTP client abandons its request: a
\* handler ends only by what it reads from its queue.
LiveNext ==
    \/ Accept
    \/ InboundNext
    \/ InboundSend
    \/ InboundEnd
    \/ \E t \in Tun : CleanupStep(t)
    \/ \E t \in Tun : run_connection(t)
    \/ \E t \in Tun : run_connection_end(t)
    \/ \E t \in Tun : uplink_writer_end(t)
    \/ \E t \in Tun : rx_process(t)
    \/ \E r \in Req : begin_download(r)
    \/ \E r \in Req : uplink_send(r)
    \/ \E r \in Req : proxy_download_first(r)
    \/ \E r \in Req : proxy_download_body(r)
    \/ \E r \in Req : download_failed(r)
    \/ \E r \in Req : do_download_init(r)
    \/ \E r \in Req : do_download_chunk(r)
    \/ \E r \in Req : do_download_error(r)
    \/ \E r \in Req : do_download_eof(r)
LiveSpec == Init /\ [][LiveNext]_vars /\ Fairness

\* ---------------------------------------------------- notions for claims
\* The handler of request r holds the receiver of its session's queue.
Live(r) == RxAlive(r)
\* Request r's session is an entry of the session table.
InTable(r) == sid[r] \in DOMAIN state.sessions /\ state.sessions[sid[r]] = r
IsPrefix(s, t) == Len(s) <= Len(t) /\ \A i \in 1..Len(s) : s[i] = t[i]
FromWorker(oc) == oc.src # NoReq
\* The opcodes of a log that a download task emitted (not the cleanup task).
WorkerPart(s) == SelectSeq(s, FromWorker)
HasSynthetic(s) == \E i \in 1..Len(s) : s[i].src = NoReq
HasComplete(s) == \E i \in 1..Len(s) : s[i].op = "Complete"
RECURSIVE ChunkBytes(_)
\* The concatenation, in order, of the Chunk payloads of a sequence of opcodes.
ChunkBytes(s) ==
    IF s = <<>> THEN <<>>
    ELSE (IF Head(s).op = "Chunk" THEN Head(s).arg ELSE <<>>) \o ChunkBytes(Tail(s))
RECURSIVE UpstreamBody(_, _)
\* The first n blocks of the upstream body of a package, as bytes.
UpstreamBody(package, n) ==
    IF n = 0 THEN <<>> ELSE UpstreamBody(package, n - 1) \o UpstreamBlock(package, n)

\* --------------------------------------------------------------------- C1
\* C1 as claimed: the opcodes delivered to a session's queue are a prefix of
\* Init, Chunk*, Complete: the first is Init, only Chunk or Complete follows,
\* and nothing follows a Complete.
IsPrefixOfInitChunksComplete(s) ==
    \A i \in 1..Len(s) :
        /\ i = 1 => s[i].op = "Init"
        /\ i > 1 => s[i].op \in {"Chunk", "Complete"} /\ s[i - 1].op # "Complete"
DeliveredShape(s) ==
    \A i \in 1..Len(s) :
        /\ s[i].op = "Init" => i = 1
        /\ s[i].op = "Chunk" => i > 1 /\ s[i - 1].op \in {"Init", "Chunk"}
        /\ s[i].op = "Complete" /\ i = 1 => IsCompleteErr(s[i])
        /\ i > 1 /\ s[i - 1].op = "Complete" =>
                /\ IsCompleteErr(s[i]) /\ s[i].src = NoReq
                /\ s[i - 1].src # NoReq
C2_InOrder == \A r \in Req : IsPrefix(WorkerPart(log[r]), emitted[r])
\* Two sessions are being delivered to at once, each at least two opcodes in.
C2_Witness ==
    /\ \A r \in Req : Live(r) /\ Len(WorkerPart(log[r])) >= 2
    /\ \E t \in Tun : \A r \in Req : taskTun[r] = t

C4_DistinctIds ==
    /\ \A r \in Req : Live(r) /\ ~evicted[r] => InTable(r)
    /\ \A id \in DOMAIN state.sessions : sid[state.sessions[id]] = id
    /\ \A r1, r2 \in Req :
            r1 # r2 /\ Live(r1) /\ Live(r2) /\ ~evicted[r1] /\ ~evicted[r2]
                => sid[r1] # sid[r2]
    /\ \A t \in Tun : \A i, j \in 1..Len(upq[t]) :
            /\ upq[t][i].session_id = sid[upq[t][i].package]
            /\ i # j => upq[t][i].session_id # upq[t][j].session_id
\* Two begin_download calls overlap: both requests wait on the same uplink.
C4_Witness ==
    \E t \in Tun : Len(upq[t]) = 2 /\ \A r \in Req : Live(r) /\ InTable(r)

\* --------------------------------------------------------------------- C5
\* C5: an accept that finds a prior uplink leaves the session table empty and
\* hands every session that was in it to the cleanup task, in that one step;
\* and a moved-out session whose receiver lives is in time handed the cleanup
\* task's Complete(Err), unless the receiver is dropped first.
AcceptStep == servePc = "accept" /\ servePc' = "next"
C5_EvictAndNotify ==
    /\ [][AcceptStep /\ state.uplink # NoTun =>
            /\ state'.sessions = EmptyMap
            /\ \A r \in Range(state.sessions) : r \in Range(cleanup'[curTun'])]_vars
    /\ \A r \in Req : (evicted[r] /\ Live(r)) ~> (~Live(r) \/ HasSynthetic(log[r]))
\* A moved-out session, its receiver alive, has been handed the Complete(Err)
\* after opcodes of its download.
C5_Witness ==
    \E r \in Req : evicted[r] /\ Live(r) /\ HasSynthetic(log[r]) /\ Len(log[r]) >= 2

\* --------------------------------------------------------------------- C6
\* C6: once a reset has moved a session out, the only opcode its queue is
\* handed is the cleanup task's Complete(Err), once.
C6_OnlySynthetic ==
    [][\A r \in Req : evicted[r] /\ log'[r] # log[r] /\ Live(r)' =>
            /\ log'[r] = Append(log[r], Complete("Err", NoReq))
            /\ ~HasSynthetic(log[r])]_vars
\* A moved-out session was handed the Complete(Err) while its download task
\* on the previous tunnel still had opcodes to emit.
C6_Witness ==
    \E r \in Req :
        /\ evicted[r] /\ Live(r) /\ HasSynthetic(log[r])
        /\ task[r] \in {"get", "body"}

\* --------------------------------------------------------------------- C7
\* C7 as claimed (its last part): once a new tunnel is accepted, every
\* UpstreamRequest is put on the new tunnel's uplink, none on a previous one.
UplinkSendStep(r) == pc[r] = "sending" /\ pc'[r] = "first"
C7_Original ==
    [][\A r \in Req : UplinkSendStep(r) => heldUp[r] = state.uplink]_vars
\* C7, amended: the inbound half of at most one tunnel is being read; a
\* waiting connection is accepted only when no tunnel's inbound half is being
\* read, and becomes the uplink; a request put on another uplink than the
\* current one belongs to a session the reset has moved out.
C7_OneTunnel ==
    /\ [](/\ Cardinality({t \in Tun : tun[t] = "active"}) <= 1
          /\ servePc \in {"next", "send"} <=> (curTun # NoTun /\ tun[curTun] = "active")
          /\ servePc \in {"next", "send"} => state.uplink = curTun)
    /\ [][\A t \in Tun : tun[t] = "pending" /\ tun'[t] = "active" =>
            /\ \A u \in Tun : tun[u] # "active"
            /\ state'.uplink = t]_vars
    /\ [][\A r \in Req : UplinkSendStep(r) => heldUp[r] = state.uplink \/ evicted[r]]_vars
\* The second tunnel is the uplink, one request has gone out on it and a
\* moved-out session's request has gone out on the first.
C7_Witness ==
    /\ state.uplink = 2 /\ tun[2] = "active"
    /\ \E r1, r2 \in Req :
        /\ pc[r1] = "first" /\ heldUp[r1] = 1 /\ evicted[r1]
        /\ pc[r2] = "first" /\ heldUp[r2] = 2

\* --------------------------------------------------------------------- C8
\* C8 as claimed: while no tunnel connection is established (none accepted
\* yet, or the accepted one's inbound stream has ended), begin_download fails
\* with NoUplink and the GET is answered 404.
Established == \E t \in Tun : tun[t] = "active"
C8_NoUplinkWhenDown ==
    [][\A r \in Req : pc[r] = "idle" /\ pc'[r] # "idle" /\ ~Established =>
            pc'[r] = "done" /\ status'[r] = 404]_vars

\* --------------------------------------------------------------------- C9
\* C9 as claimed: a session that is streaming its response body (Init taken,
\* no Complete delivered) when its tunnel ends has
\* its response terminated in time and is handed no further Chunk, whether or
\* not another tunnel is ever accepted.
MidDownloadDropped(r) ==
    /\ pc[r] = "stream" /\ ~sawOk[r] /\ ~HasComplete(log[r])
    /\ tun[heldUp[r]] = "ended"
C9_ResponseTerminates ==
    \A r \in Req : MidDownloadDropped(r) ~> pc[r] = "done"

\* -------------------------------------------------------------------- C10
\* C10 as claimed: once a Complete of the download task has been delivered
\* to a session's queue and process_receives is back at reading the tunnel,
\* the session's entry is gone from the table.
C10_RemovedOnComplete ==
    \A r \in Req :
        Live(r) /\ HasComplete(WorkerPart(log[r])) /\ servePc = "next" => ~InTable(r)

\* ============================================== control plane (mirror)
\* cli_server.rs: service spawns one handle_connection task per accepted
\* connection; the tasks run on the runtime's worker threads, in parallel,
\* and share the cache directory.  Every std::fs call is a step of its own.
\* cp is a record:
\*   fsName  per package name: what <cache>/name is ("none", "dir")
\*   fs      per package id: what <cache>/name/version is, its bytes if a file
\*   pc      per connection: where its handle_connection task is
\*   inq     per connection: request frames sent and not yet read
\*   req     per connection: the envelope handle_connection is working on
\*   kept    per connection: check_missing's retained entries so far
\*   idx     per connection: entries check_missing visited / bytes write_all wrote
\*   out     per connection: the response envelopes sent, in order
\*   read    history, per connection: the sequence numbers of the requests read
\*   before  history, per connection: what the path of the UploadCrate under way
\*           held when the request was read, if no other task was writing it
\*   served  the body of the last HTTP cache hit (download_cached)

\* The lists a CheckMissing carries and the envelopes the client of
\* connection c sends.
CheckLists == [1..MaxList -> PackageIds]
Requests(c) ==
    {Overlapped(q, CheckMissing(l)) : q \in SeqVals, l \in CheckLists}
        \cup {Overlapped(q, UploadCrate(pk, FileBytes(c))) : q \in SeqVals, pk \in PackageIds}
\* The zero-length frame a client ends its connection with.
EndFrame == [sequence |-> 0, payload |-> [type |-> "end"]]

\* What the cache directory may hold when the mirror starts: nothing; a
\* crate file; a directory where a crate file would be.
CacheInits ==
    {[name |-> [n \in Name |-> "none"], entries |-> [pk \in PackageIds |-> NoFile]]}
        \cup {[name |-> [n \in Name |-> "dir"],
               entries |-> [pk \in PackageIds |-> IF pk = PackageId(1, 1) THEN e ELSE NoFile]] :
                    e \in {RegularFile(<<7>>), Directory}}

\* <cache>/name/version exists.
PathExists(pk) == cp.fsName[pk.name] = "dir" /\ exists(cp.fs[pk])

\* A write of chunk at offset off of a file holding bytes: bytes before off
\* stay (a gap past the end reads as zeros), bytes after the chunk stay.
WriteAt(bytes, off, chunk) ==
    [i \in 1..(IF Len(bytes) > off + Len(chunk) THEN Len(bytes) ELSE off + Len(chunk)) |->
        IF i > off /\ i <= off + Len(chunk) THEN chunk[i - off]
        ELSE IF i <= Len(bytes) THEN bytes[i] ELSE 0]

CpInit ==
    /\ TunnelInit /\ cl = Off /\ fr = Off /\ ep = Off /\ pf = Off
    /\ \E ci \in CacheInits :
        cp = [fsName |-> ci.name, fs |-> ci.entries,
              pc |-> [c \in Conn |-> "none"],
              inq |-> [c \in Conn |-> <<>>],
              req |-> [c \in Conn |-> NoRequest],
              kept |-> [c \in Conn |-> <<>>],
              idx |-> [c \in Conn |-> 0],
              out |-> [c \in Conn |-> <<>>],
              read |-> [c \in Conn |-> <<>>],
              before |-> [c \in Conn |-> NoFile],
              served |-> NoServed]

\* service: listener.accept() and tokio::spawn(handle_connection).
service(c) ==
    /\ cp.pc[c] = "none"
    /\ c > 1 => cp.pc[c - 1] # "none"
    /\ cp' = [cp EXCEPT !.pc[c] = "next"]
    /\ UNCHANGED <<tunVars, cl, fr, ep, pf>>

\* The requests sent so far on connections 1 .. c.
RECURSIVE RequestsSent(_)
RequestsSent(c) ==
    IF c = 0 THEN 0
    ELSE RequestsSent(c - 1) + Len(cp.read[c])
            + Len(SelectSeq(cp.inq[c], LAMBDA m : m # EndFrame))

\* A client writes a request frame, or the zero-length frame, on its
\* connection; it need not wait for responses.
client_send(c, m) ==
    /\ cp.pc[c] \notin {"none", "done", "failed"}
    /\ IF cp.inq[c] = <<>> THEN TRUE ELSE cp.inq[c][Len(cp.inq[c])] # EndFrame
    /\ IF m = EndFrame THEN TRUE ELSE RequestsSent(MaxConn) < MaxCpReq
    /\ cp' = [cp EXCEPT !.inq[c] = Append(@, m)]
    /\ UNCHANGED <<tunVars, cl, fr, ep, pf>>

\* Task c is between File::create and the end of write_all for package pk.
Writing(c, pk) ==
    cp.pc[c] \in {"up_create", "up_write"} /\ cp.req[c].payload.package = pk

\* handle_connection: rx_stream.next() yields None (the loop ends, Ok) or a
\* request, and the match picks its arm.
handle_connection_next(c) ==
    /\ cp.pc[c] = "next"
    /\ cp.inq[c] # <<>>
    /\ LET m == Head(cp.inq[c])
       IN  IF m = EndFrame
           THEN cp' = [cp EXCEPT !.pc[c] = "done", !.inq[c] = Tail(@),
                                 !.kept[c] = <<>>, !.idx[c] = 0]
           ELSE cp' = [cp EXCEPT
                        !.pc[c] = IF m.payload.type = "CheckMissing" THEN "check" ELSE "up_name",
                        !.req[c] = m,
                        !.read[c] = Append(@, m.sequence),
                        !.before[c] =
                            IF m.payload.type = "UploadCrate"
                            THEN IF \E c2 \in Conn \ {c} : Writing(c2, m.payload.package)
                                 THEN NoFile ELSE cp.fs[m.payload.package]
                            ELSE NoFile,
                        !.inq[c] = Tail(@), !.kept[c] = <<>>, !.idx[c] = 0]
    /\ UNCHANGED <<tunVars, cl, fr, ep, pf>>

\* check_missing: packages.retain visits the next entry and keeps it when
\* its path does not exist; after the last entry the arm goes on to send.
check_missing(c) ==
    /\ cp.pc[c] = "check"
    /\ LET packages == cp.req[c].payload.packages
       IN  IF cp.idx[c] < Len(packages)
           THEN LET id == packages[cp.idx[c] + 1]
                IN  cp' = [cp EXCEPT
                            !.kept[c] = IF ~PathExists(id) THEN Append(@, id) ELSE @,
                            !.idx[c] = @ + 1]
           ELSE cp' = [cp EXCEPT !.pc[c] = "send"]
    /\ UNCHANGED <<tunVars, cl, fr, ep, pf>>

\* upload_crate: if !cache_path.exists() for <cache>/name.
upload_crate_name_exists(c) ==
    /\ cp.pc[c] = "up_name"
    /\ cp' = [cp EXCEPT !.pc[c] =
            IF cp.fsName[cp.req[c].payload.package.name] # "none" THEN "up_version"
            ELSE "up_mkdir"]
    /\ UNCHANGED <<tunVars, cl, fr, ep, pf>>

\* upload_crate: std::fs::create_dir(&cache_path)?  It fails (AlreadyExists)
\* when the directory has been created since the check; the ? ends
\* upload_crate and, through handle_connection's ?, the connection's task.
upload_crate_create_dir(c) ==
    /\ cp.pc[c] = "up_mkdir"
    /\ LET n == cp.req[c].payload.package.name
       IN  IF cp.fsName[n] = "none"
           THEN cp' = [cp EXCEPT !.fsName[n] = "dir", !.pc[c] = "up_version"]
           ELSE cp' = [cp EXCEPT !.pc[c] = "failed"]
    /\ UNCHANGED <<tunVars, cl, fr, ep, pf>>

\* upload_crate without the second exists() test: the file is always created.
upload_crate_overwrite(c) ==
    /\ cp.pc[c] = "up_version"
    /\ cp' = [cp EXCEPT !.pc[c] = "up_create"]
    /\ UNCHANGED <<tunVars, cl, fr, ep, pf>>

\* upload_crate: if !cache_path.exists() for <cache>/name/version; an
\* existing path is left alone (the warning) and upload_crate returns Ok.
upload_crate_version_exists(c) ==
    /\ cp.pc[c] = "up_version"
    /\ cp' = [cp EXCEPT !.pc[c] =
            IF PathExists(cp.req[c].payload.package) THEN "send" ELSE "up_create"]
    /\ UNCHANGED <<tunVars, cl, fr, ep, pf>>

\* upload_crate: File::create(cache_path)? creates the file empty, or
\* truncates the file that is there; it fails on a directory.
upload_crate_File_create(c) ==
    /\ cp.pc[c] = "up_create"
    /\ LET pk == cp.req[c].payload.package
       IN  IF cp.fs[pk].kind = "dir"
           THEN cp' = [cp EXCEPT !.pc[c] = "failed", !.idx[c] = 0]
           ELSE cp' = [cp EXCEPT !.fs[pk] = RegularFile(<<>>),
                                 !.pc[c] = "up_write", !.idx[c] = 0]
    /\ UNCHANGED <<tunVars, cl, fr, ep, pf>>

\* upload_crate: file.write_all(&file_bytes)?, a loop of writes at the
\* handle's own offset, each taking one or more of the bytes left.
upload_crate_write_all(c) ==
    /\ cp.pc[c] = "up_write"
    /\ LET pk == cp.req[c].payload.package
           content == cp.req[c].payload.content
           off == cp.idx[c]
       IN  \E k \in 1..(Len(content) - off) :
            cp' = [cp EXCEPT
                    !.fs[pk] = RegularFile(WriteAt(@.bytes, off, SubSeq(content, off + 1, off + k))),
                    !.idx[c] = off + k,
                    !.pc[c] = IF off + k = Len(content) THEN "send" ELSE "up_write"]
    /\ UNCHANGED <<tunVars, cl, fr, ep, pf>>

\* handle_connection: tx_stream.send(&Overlapped{sequence, payload: Ok(..)})
\* and back to rx_stream.next().
handle_connection_send(c) ==
    /\ cp.pc[c] = "send"
    /\ cp' = [cp EXCEPT
            !.out[c] = Append(@, Overlapped(cp.req[c].sequence,
                IF cp.req[c].payload.type = "CheckMissing"
                THEN Ok(Response_CheckMissing(cp.kept[c]))
                ELSE Ok(Response_UploadCrate))),
            !.pc[c] = "next"]
    /\ UNCHANGED <<tunVars, cl, fr, ep, pf>>

\* The HTTP path on a cache hit (download: cache_path.exists(), then
\* download_cached opens the file and serves what it holds).
download_cached(pk) ==
    /\ PathExists(pk) /\ cp.fs[pk].kind = "file"
    /\ cp.served # [package |-> pk, bytes |-> cp.fs[pk].bytes]
    /\ cp' = [cp EXCEPT !.served = [package |-> pk, bytes |-> cp.fs[pk].bytes]]
    /\ UNCHANGED <<tunVars, cl, fr, ep, pf>>

CpNext ==
    \/ \E c \in Conn : service(c)
    \/ \E c \in Conn : \E m \in Requests(c) \cup {EndFrame} : client_send(c, m)
    \/ \E c \in Conn : handle_connection_next(c)
    \/ \E c \in Conn : check_missing(c)
    \/ \E c \in Conn : upload_crate_name_exists(c)
    \/ \E c \in Conn : upload_crate_create_dir(c)
    \/ \E c \in Conn : upload_crate_version_exists(c)
    \/ \E c \in Conn : upload_crate_File_create(c)
    \/ \E c \in Conn : upload_crate_write_all(c)
    \/ \E c \in Conn : handle_connection_send(c)
    \/ \E pk \in PackageIds : download_cached(pk)

CpSpec == CpInit /\ [][CpNext]_vars

\* ===================================================== cpm client (cpm)
\* cpm/src/main.rs: the check command (one CheckMissing transaction on a
\* bare end point) and the upload command (one UploadCrate transaction per
\* tarball entry through CpmApiClient).  The mirror's side is the
\* environment: any response envelope may come back.
\* cl is a record:
\*   op       the command: "check" or "upload"
\*   entries  upload: the tarball entries not yet uploaded
\*   counter  CpmApiClient.1, the last sequence number used
\*   pc       "start", "await" (in recv_response), "got", "done"
\*   sent     the request envelope of the transaction under way
\*   resp     the response envelope recv_response returned
\*   result   what the command returned: "none" while it runs, "Ok", or the Error
\*   used     history: the command has looked at the payload of resp
\*   printed  check: the packages written to stdout

\* The response envelopes a peer can send back.
ResponseSeqs == 0..MaxUploads
Responses ==
    {Overlapped(q, pl) :
        q \in ResponseSeqs,
        pl \in {Ok(Response_CheckMissing(l)) : l \in CheckLists \cup {<<>>}}
                \cup {Ok(Response_UploadCrate), Err(NotImplemented)}}
NoResponse == [sequence |-> 0, payload |-> [type |-> "none"]]

ClInit ==
    /\ TunnelInit /\ cp = Off /\ fr = Off /\ ep = Off /\ pf = Off
    /\ \E o \in {"check", "upload"} : \E n \in 1..MaxUploads :
        cl = [op |-> o, entries |-> IF o = "upload" THEN n ELSE 0, counter |-> 0,
              pc |-> "start", sent |-> NoRequest, resp |-> NoResponse,
              result |-> "none", used |-> FALSE, printed |-> <<>>]

\* check: end_point.transact(&Overlapped{sequence: 1, payload:
\* Request::CheckMissing(packages)}), up to send_request.
check_send_request(packages) ==
    /\ cl.op = "check" /\ cl.pc = "start"
    /\ cl' = [cl EXCEPT !.sent = Overlapped(1, CheckMissing(packages)), !.pc = "await"]
    /\ UNCHANGED <<tunVars, cp, fr, ep, pf>>

\* CpmApiClient::transact: self.1 += 1 and self.0.transact(&Overlapped{
\* sequence, payload}), up to send_request.
transact_send_request(pk) ==
    /\ cl.op = "upload" /\ cl.pc = "start"
    /\ cl' = [cl EXCEPT !.counter = @ + 1,
                        !.sent = Overlapped(cl.counter + 1, UploadCrate(pk, FileBytes(1))),
                        !.pc = "await"]
    /\ UNCHANGED <<tunVars, cp, fr, ep, pf>>

\* SyncTcpEndPoint::recv_response returns the envelope the peer sent.
recv_response(m) ==
    /\ cl.pc = "await"
    /\ cl' = [cl EXCEPT !.resp = m, !.used = FALSE, !.pc = "got"]
    /\ UNCHANGED <<tunVars, cp, fr, ep, pf>>

\* check, after transact: end_point.close(), response.payload?, the match
\* on Response::CheckMissing and the println of every package.
check_match ==
    /\ cl.op = "check" /\ cl.pc = "got"
    /\ LET pl == cl.resp.payload
       IN  cl' = [cl EXCEPT
                !.used = TRUE,
                !.pc = "done",
                !.result = IF ~pl.ok THEN "ApiError"
                           ELSE IF pl.value.type = "CheckMissing" THEN "Ok"
                           ELSE "UnexpectedResponse",
                !.printed = IF ~pl.ok THEN <<>>
                            ELSE IF pl.value.type = "CheckMissing" THEN pl.value.packages
                            ELSE <<>>]
    /\ UNCHANGED <<tunVars, cp, fr, ep, pf>>

\* CpmApiClient::transact after self.0.transact: the sequence comparison
\* and response.payload?; then upload's if let Response::UploadCrate, and
\* upload_tarball's loop (next entry, or client.close() and Ok).
transact_compare ==
    /\ cl.op = "upload" /\ cl.pc = "got"
    /\ LET pl == cl.resp.payload
       IN  IF cl.resp.sequence # cl.sent.sequence
           THEN cl' = [cl EXCEPT !.result = "SequenceError", !.pc = "done"]
           ELSE IF ~pl.ok
           THEN cl' = [cl EXCEPT !.used = TRUE, !.result = "ApiError", !.pc = "done"]
           ELSE IF pl.value.type # "UploadCrate"
           THEN cl' = [cl EXCEPT !.used = TRUE, !.result = "UnexpectedResponse", !.pc = "done"]
           ELSE cl' = [cl EXCEPT
                        !.used = TRUE,
                        !.entries = @ - 1,
                        !.pc = IF cl.entries = 1 THEN "done" ELSE "start",
                        !.result = IF cl.entries = 1 THEN "Ok" ELSE "none"]
    /\ UNCHANGED <<tunVars, cp, fr, ep, pf>>

ClNext ==
    \/ \E l \in CheckLists : check_send_request(l)
    \/ \E pk \in PackageIds : transact_send_request(pk)
    \/ \E m \in Responses : recv_response(m)
    \/ check_match
    \/ transact_compare

ClSpec == ClInit /\ [][ClNext]_vars

\* ================================================ framed transport (common)
\* common/src/lib.rs: TcpSender writes each value as a frame, a u32
\* big-endian length followed by the value's bincode bytes, and close writes
\* a zero length; TcpReceiver::next reads one frame.  bincode (fixed-width
\* integers, little-endian): a u32 and an enum's variant index take four
\* bytes, a Vec's or String's length eight.  The values are RecvMessage
\* envelopes; a package name or version is the one-byte string holding its
\* number.
\* fr is a record:
\*   wire    the bytes written to the socket and not yet read
\*   open    the sender has not been closed
\*   sent    history: the values passed to send, in order
\*   got     what the calls of next returned, in order
\*   ended   next has returned None

U32LE(n) == <<n % 256, (n \div 256) % 256, (n \div 65536) % 256, (n \div 16777216) % 256>>
U32BE(n) == <<(n \div 16777216) % 256, (n \div 65536) % 256, (n \div 256) % 256, n % 256>>
U64LE(n) == U32LE(n) \o <<0, 0, 0, 0>>
FromLE(b) == b[1] + 256 * b[2] + 65536 * b[3] + 16777216 * b[4]
FromBE(b) == 16777216 * b[1] + 65536 * b[2] + 256 * b[3] + b[4]

\* The sequence numbers of the envelopes sent: one per byte position that
\* tells the byte orders apart.
FrameSeqs == {0, 1, 256}
FrameValues ==
    {Overlapped(q, pl) :
        q \in FrameSeqs,
        pl \in {Ok(Response_CheckMissing(l)) : l \in {<<>>} \cup [1..1 -> PackageIds]}
                \cup {Ok(Response_UploadCrate), Err(NotImplemented)}}

serialize_String(n) == U64LE(1) \o <<n>>
serialize_PackageId(pk) == serialize_String(pk.name) \o serialize_String(pk.version)
RECURSIVE serialize_Vec(_)
serialize_Vec(l) ==
    IF l = <<>> THEN <<>> ELSE serialize_PackageId(Head(l)) \o serialize_Vec(Tail(l))
serialize_Response(r) ==
    IF r.type = "CheckMissing"
    THEN U32LE(0) \o U64LE(Len(r.packages)) \o serialize_Vec(r.packages)
    ELSE U32LE(1)
\* api_serde::serialize of a RecvMessage.
serialize(value) ==
    U32LE(value.sequence)
        \o (IF value.payload.ok THEN U32LE(0) \o serialize_Response(value.payload.value)
            ELSE U32LE(1) \o U32LE(0))

\* The n package ids that start at byte pos + 1 of bytes.
RECURSIVE deserialize_Vec(_, _, _)
deserialize_Vec(bytes, pos, n) ==
    IF n = 0 THEN <<>>
    ELSE LET nameLen == FromLE(SubSeq(bytes, pos + 1, pos + 4))
             vpos == pos + 8 + nameLen
             versionLen == FromLE(SubSeq(bytes, vpos + 1, vpos + 4))
         IN  <<PackageId(bytes[pos + 8 + nameLen], bytes[vpos + 8 + versionLen])>>
                \o deserialize_Vec(bytes, vpos + 8 + versionLen, n - 1)
deserialize_payload(bytes) ==
    IF FromLE(SubSeq(bytes, 5, 8)) = 0
    THEN IF FromLE(SubSeq(bytes, 9, 12)) = 0
         THEN Ok(Response_CheckMissing(
                deserialize_Vec(bytes, 20, FromLE(SubSeq(bytes, 13, 16)))))
         ELSE Ok(Response_UploadCrate)
    ELSE Err(NotImplemented)
\* deserialize reading the sequence number in the wrong byte order.
deserialize_be(bytes) ==
    Overlapped(FromBE(SubSeq(bytes, 1, 4)), deserialize_payload(bytes))
\* api_serde::deserialize of a RecvMessage.
deserialize(bytes) ==
    Overlapped(FromLE(SubSeq(bytes, 1, 4)), deserialize_payload(bytes))

Some(value) == [some |-> TRUE, value |-> value]
None == [some |-> FALSE, value |-> Overlapped(0, Err(NotImplemented))]

FrInit ==
    /\ TunnelInit /\ cp = Off /\ cl = Off /\ ep = Off /\ pf = Off
    /\ fr = [wire |-> <<>>, open |-> TRUE, sent |-> <<>>, got |-> <<>>, ended |-> FALSE]

\* TcpSender::send: write_u32(len) and write_all(bytes).
TcpSender_send(value) ==
    /\ fr.open
    /\ Len(fr.sent) < MaxFrames
    /\ LET bytes == serialize(value)
       IN  fr' = [fr EXCEPT !.wire = @ \o U32BE(Len(bytes)) \o bytes,
                            !.sent = Append(@, value)]
    /\ UNCHANGED <<tunVars, cp, cl, ep, pf>>

\* TcpSender::close: write_u32(0) and shutdown; the sender is consumed.
TcpSender_close ==
    /\ fr.open
    /\ fr' = [fr EXCEPT !.wire = @ \o U32BE(0), !.open = FALSE]
    /\ UNCHANGED <<tunVars, cp, cl, ep, pf>>

\* TcpReceiver::next: read_u32, and for a length above zero read_exact of
\* that many bytes and deserialize; it returns once the bytes are there.
TcpReceiver_next ==
    /\ ~fr.ended
    /\ Len(fr.wire) >= 4
    /\ LET len == FromBE(SubSeq(fr.wire, 1, 4))
       IN  IF len > 0
           THEN /\ Len(fr.wire) >= 4 + len
                /\ fr' = [fr EXCEPT
                        !.got = Append(@, Some(deserialize(SubSeq(fr.wire, 5, 4 + len)))),
                        !.wire = SubSeq(@, 5 + len, Len(@))]
           ELSE fr' = [fr EXCEPT !.got = Append(@, None), !.ended = TRUE,
                                 !.wire = SubSeq(@, 5, Len(@))]
    /\ UNCHANGED <<tunVars, cp, cl, ep, pf>>

FrameNext ==
    \/ \E v \in FrameValues : TcpSender_send(v)
    \/ TcpSender_close
    \/ TcpReceiver_next

FrameSpec == FrInit /\ [][FrameNext]_vars

\* ============================ cpm end point against the mirror's framing
\* common/src/sync_tcp_end_point.rs on the client's side of a control-plane
\* connection, TcpReceiver<SendMessage> and TcpSender<RecvMessage>
\* (handle_connection) on the server's side.  The two half-streams are
\* taken one by one: what each writer puts on the socket and what the
\* reader at the other end makes of it.
\* ep is a record:
\*   c2s      bytes the end point wrote and the server has not read
\*   s2c      bytes the server wrote and the end point has not read
\*   open     the end point has not been closed
\*   reqs     history: the envelopes passed to send_request, in order
\*   srvGot   what the server's rx_stream.next() returned, in order
\*   srvEnded rx_stream.next() has returned None or an error
\*   resps    history: the envelopes the server passed to tx_stream.send
\*   cliGot   what recv_response returned, in order
\*   cliEnded recv_response has returned an error

U16BE(n) == <<(n \div 256) % 256, n % 256>>
FromBE16(b) == 256 * b[1] + b[2]

\* The request envelopes an end point sends.
EpRequests ==
    {Overlapped(q, rq) :
        q \in FrameSeqs,
        rq \in {CheckMissing(l) : l \in {<<>>} \cup [1..1 -> PackageIds]}
                \cup {UploadCrate(PackageId(1, 1), FileBytes(1))}}

\* api_serde::serialize of a SendMessage.
serialize_Request(value) ==
    U32LE(value.sequence)
        \o (IF value.payload.type = "CheckMissing"
            THEN U32LE(0) \o U64LE(Len(value.payload.packages))
                    \o serialize_Vec(value.payload.packages)
            ELSE U32LE(1) \o serialize_PackageId(value.payload.package)
                    \o U64LE(Len(value.payload.content)) \o value.payload.content)

\* The result of a read that ended in an io::Error.
Failed == [some |-> FALSE, value |-> Overlapped(0, Err([type |-> "io::Error"]))]

\* api_serde::deserialize of a SendMessage; bytes too short for an envelope
\* are an error.
deserialize_Request(bytes) ==
    IF Len(bytes) < 16 THEN Failed
    ELSE IF FromLE(SubSeq(bytes, 5, 8)) = 0
    THEN [some |-> TRUE,
          value |-> Overlapped(FromLE(SubSeq(bytes, 1, 4)),
                        CheckMissing(deserialize_Vec(bytes, 16, FromLE(SubSeq(bytes, 9, 12)))))]
    ELSE LET pk == deserialize_Vec(bytes, 8, 1)[1]
             n == FromLE(SubSeq(bytes, 27, 30))
         IN  [some |-> TRUE,
              value |-> Overlapped(FromLE(SubSeq(bytes, 1, 4)),
                            UploadCrate(pk, SubSeq(bytes, 35, 34 + n)))]

\* api_serde::deserialize of a RecvMessage; bytes too short for an envelope
\* are an error.
deserialize_checked(bytes) ==
    IF Len(bytes) < 12 THEN Failed ELSE Some(deserialize(bytes))

EpInit ==
    /\ TunnelInit /\ cp = Off /\ cl = Off /\ fr = Off /\ pf = Off
    /\ ep = [c2s |-> <<>>, s2c |-> <<>>, open |-> TRUE, reqs |-> <<>>,
             srvGot |-> <<>>, srvEnded |-> FALSE, resps |-> <<>>,
             cliGot |-> <<>>, cliEnded |-> FALSE]

\* SyncTcpEndPoint::send_request: write_u16(len) and write_all(bytes).
EndPoint_send_request(request) ==
    /\ ep.open /\ ~ep.cliEnded
    /\ Len(ep.reqs) + Len(ep.resps) < MaxFrames
    /\ LET bytes == serialize_Request(request)
       IN  ep' = [ep EXCEPT !.c2s = @ \o U16BE(Len(bytes)) \o bytes,
                            !.reqs = Append(@, request)]
    /\ UNCHANGED <<tunVars, cp, cl, fr, pf>>

\* SyncTcpEndPoint::close: write_u16(0), flush, shutdown(Both).
EndPoint_close ==
    /\ ep.open
    /\ ep' = [ep EXCEPT !.c2s = @ \o U16BE(0), !.open = FALSE]
    /\ UNCHANGED <<tunVars, cp, cl, fr, pf>>

\* The server's rx_stream.next() (TcpReceiver::next): read_u32, then
\* read_exact of that many bytes.  A read returns when its bytes are there;
\* when the end point has shut the socket down and they are not, it fails.
Server_next ==
    /\ ~ep.srvEnded
    /\ IF Len(ep.c2s) >= 4
       THEN LET len == FromBE(SubSeq(ep.c2s, 1, 4))
            IN  IF len = 0
                THEN ep' = [ep EXCEPT !.srvGot = Append(@, None), !.srvEnded = TRUE,
                                      !.c2s = SubSeq(@, 5, Len(@))]
                ELSE IF Len(ep.c2s) >= 4 + len
                THEN LET res == deserialize_Request(SubSeq(ep.c2s, 5, 4 + len))
                     IN  ep' = [ep EXCEPT !.srvGot = Append(@, res),
                                          !.srvEnded = ~res.some,
                                          !.c2s = SubSeq(@, 5 + len, Len(@))]
                ELSE /\ ~ep.open
                     /\ ep' = [ep EXCEPT !.srvGot = Append(@, Failed), !.srvEnded = TRUE,
                                         !.c2s = <<>>]
       ELSE /\ ~ep.open
            /\ ep' = [ep EXCEPT !.srvGot = Append(@, Failed), !.srvEnded = TRUE,
                                !.c2s = <<>>]
    /\ UNCHANGED <<tunVars, cp, cl, fr, pf>>

\* The server's tx_stream.send (TcpSender::send): write_u32(len) and
\* write_all(bytes).
Server_send(value) ==
    /\ ~ep.cliEnded
    /\ Len(ep.reqs) + Len(ep.resps) < MaxFrames
    /\ LET bytes == serialize(value)
       IN  ep' = [ep EXCEPT !.s2c = @ \o U32BE(Len(bytes)) \o bytes,
                            !.resps = Append(@, value)]
    /\ UNCHANGED <<tunVars, cp, cl, fr, pf>>

\* SyncTcpEndPoint::recv_response: read_u16, read_exact of that many bytes,
\* deserialize.
EndPoint_recv_response ==
    /\ ep.open /\ ~ep.cliEnded
    /\ Len(ep.s2c) >= 2
    /\ LET len == FromBE16(SubSeq(ep.s2c, 1, 2))
       IN  /\ Len(ep.s2c) >= 2 + len
           /\ LET res == deserialize_checked(SubSeq(ep.s2c, 3, 2 + len))
              IN  ep' = [ep EXCEPT !.cliGot = Append(@, res),
                                   !.cliEnded = ~res.some,
                                   !.s2c = SubSeq(@, 3 + len, Len(@))]
    /\ UNCHANGED <<tunVars, cp, cl, fr, pf>>

EpNext ==
    \/ \E rq \in EpRequests : EndPoint_send_request(rq)
    \/ EndPoint_close
    \/ Server_next
    \/ \E v \in FrameValues : Server_send(v)
    \/ EndPoint_recv_response

EpSpec == EpInit /\ [][EpNext]_vars

\* ================================================== HTTP routing (mirror)
\* mirror/src/main.rs: handler and parse_download_request.  A string is a
\* sequence of one-character strings.  A Uri is a record: pnq (it has a
\* path_and_query), path, and query (some: there is a ? in the URI; s: what
\* follows it).
\* pf is a record: fn, the function called; its arguments and its result.

Str_api_v1_crates == <<"/", "a", "p", "i", "/", "v", "1", "/", "c", "r", "a", "t", "e", "s", "/">>
Str_download == <<"/", "d", "o", "w", "n", "l", "o", "a", "d">>

RECURSIVE Strings(_, _)
\* The strings over alphabet of length n or less.
Strings(alphabet, n) ==
    IF n = 0 THEN {<<>>}
    ELSE LET shorter == Strings(alphabet, n - 1)
         IN  shorter \cup {Append(x, ch) : x \in shorter, ch \in alphabet}

\* The request paths tried: the right first part or a wrong one, then up to
\* MaxMid characters, then the right last part or a wrong one.
Paths ==
    {pre \o mid \o suf :
        pre \in {Str_api_v1_crates, <<"/", "a", "p", "i", "/">>, <<"/">>},
        mid \in Strings({"/", "a", "1"}, MaxMid),
        suf \in {Str_download, <<"/", "d", "o", "w", "n">>, <<>>}}
Queries == {[some |-> FALSE, s |-> <<>>], [some |-> TRUE, s |-> <<>>], [some |-> TRUE, s |-> <<"a">>]}
Uris ==
    {[pnq |-> FALSE, path |-> <<>>, query |-> [some |-> FALSE, s |-> <<>>]]}
        \cup {[pnq |-> TRUE, path |-> pa, query |-> q] : pa \in Paths, q \in Queries}
Methods == {"GET", "HEAD", "POST"}

\* str::strip_prefix and str::strip_suffix: Some(rest) or None.
strip_prefix(str, prefix) ==
    IF Len(str) >= Len(prefix) /\ SubSeq(str, 1, Len(prefix)) = prefix
    THEN [some |-> TRUE, rest |-> SubSeq(str, Len(prefix) + 1, Len(str))]
    ELSE [some |-> FALSE, rest |-> <<>>]
strip_suffix(str, suffix) ==
    IF Len(str) >= Len(suffix) /\ SubSeq(str, Len(str) - Len(suffix) + 1, Len(str)) = suffix
    THEN [some |-> TRUE, rest |-> SubSeq(str, 1, Len(str) - Len(suffix))]
    ELSE [some |-> FALSE, rest |-> <<>>]

\* split that leaves empty parts out.
RECURSIVE split_skip_empty(_)
split_skip_empty(str) ==
    IF \E i \in 1..Len(str) : str[i] = "/"
    THEN LET i == CHOOSE k \in 1..Len(str) :
                    str[k] = "/" /\ \A j \in 1..(k - 1) : str[j] # "/"
         IN  (IF i = 1 THEN <<>> ELSE <<SubSeq(str, 1, i - 1)>>)
                \o split_skip_empty(SubSeq(str, i + 1, Len(str)))
    ELSE IF str = <<>> THEN <<>> ELSE <<str>>

\* str::split('/'): the parts between the slashes, empty ones included.
RECURSIVE split(_)
split(str) ==
    IF \E i \in 1..Len(str) : str[i] = "/"
    THEN LET i == CHOOSE k \in 1..Len(str) :
                    str[k] = "/" /\ \A j \in 1..(k - 1) : str[j] # "/"
         IN  <<SubSeq(str, 1, i - 1)>> \o split(SubSeq(str, i + 1, Len(str)))
    ELSE <<str>>

ErrorResponse(code) == [kind |-> "error", code |-> code, package |-> <<>>, version |-> <<>>]
Download(package, version) ==
    [kind |-> "download", code |-> 0, package |-> package, version |-> version]

\* parse_download_request: Ok((package, version)) or Err(code).
parse_download_request(uri) ==
    IF uri.pnq
    THEN IF ~uri.query.some
         THEN LET p1 == strip_prefix(uri.path, Str_api_v1_crates)
              IN  IF p1.some
                  THEN LET p2 == strip_suffix(p1.rest, Str_download)
                       IN  IF p2.some
                           THEN LET parts == split(p2.rest)
                                IN  IF Len(parts) = 2
                                    THEN Download(parts[1], parts[2])
                                    ELSE ErrorResponse(404)
                           ELSE ErrorResponse(404)
                  ELSE ErrorResponse(404)
         ELSE ErrorResponse(400)
    ELSE ErrorResponse(400)

\* handler: what the request is answered with, or the download it goes on to.
handler(method, uri) ==
    IF method = "GET" THEN parse_download_request(uri) ELSE ErrorResponse(400)

NoCall == [fn |-> "none"]
RouteInit ==
    /\ TunnelInit /\ cp = Off /\ cl = Off /\ fr = Off /\ ep = Off
    /\ pf = NoCall

\* A request arrives and handler runs on it.
handle_request(method, uri) ==
    /\ pf = NoCall
    /\ pf' = [fn |-> "handler", method |-> method, uri |-> uri, result |-> handler(method, uri)]
    /\ UNCHANGED <<tunVars, cp, cl, fr, ep>>

RouteNext == \E method \in Methods : \E uri \in Uris : handle_request(method, uri)

RouteSpec == RouteInit /\ [][RouteNext]_vars

\* ------------------------------------------------- the response body stream
\* proxy_download's body: the receiver's stream after its Init, seen through
\* filter_map.  The opcodes are whatever the tunnel's peer sends for the
\* session after the Init: the mirror forwards any decoded opcode to the
\* session's queue (process_receives) without looking at it.
BodyOpcodes ==
    { Init_(UpstreamHeaders(1), NoReq), Chunk(UpstreamBlock(1, 1), NoReq),
      Complete("Ok", NoReq), Complete("Err", NoReq) }

RECURSIVE OpcodeSeqs(_)
OpcodeSeqs(n) ==
    IF n = 0 THEN { <<>> }
    ELSE LET shorter == OpcodeSeqs(n - 1)
         IN  shorter \cup { Append(q, oc) : q \in shorter, oc \in BodyOpcodes }

\* The body has been built (Body::wrap_stream) and nothing polled yet: rest
\* is what the queue will hold, taken what the stream has consumed, items
\* what it has yielded, ended whether hyper has dropped it on an error.
StreamInit ==
    /\ TunnelInit /\ cp = Off /\ cl = Off /\ fr = Off /\ ep = Off
    /\ pf \in { [fn |-> "body", rest |-> q, taken |-> <<>>, items |-> <<>>, ended |-> FALSE] :
                    q \in OpcodeSeqs(MaxOps) \ { <<>> } }

\* One poll of the body that finds an opcode in the queue: filter_map's
\* Some(..) is yielded, its None is skipped and the stream goes on polling;
\* an Err item is the end of the response.
Body_poll_next ==
    /\ pf.fn = "body" /\ ~pf.ended /\ pf.rest # <<>>
    /\ LET oc == Head(pf.rest)
           it == filter_map(oc)
       IN  pf' = [pf EXCEPT !.rest = Tail(@),
                            !.taken = Append(@, oc),
                            !.items = IF it.item = "None" THEN @ ELSE Append(@, it),
                            !.ended = it.item = "Err"]
    /\ UNCHANGED <<tunVars, cp, cl, fr, ep>>

StreamNext == Body_poll_next

StreamSpec == StreamInit /\ [][StreamNext]_vars

\* ------------------------------------------------------ session allocation
\* State::add_session run one iteration of its loop at a time, from any
\* counter value and any table.  last_mux is a u32, here IdSpace values wide.
\* `self.last_mux += 1` at the largest value depends on the build: with
\* overflow checks (the dev profile) it panics, without (the release profile)
\* it wraps to 0.
AllocIds == 0..(IdSpace - 1)

AllocInit ==
    /\ TunnelInit /\ cp = Off /\ cl = Off /\ fr = Off /\ ep = Off
    /\ pf \in { [fn |-> "add_session", overflow_checks |-> oc, pc |-> "loop",
                 last_mux |-> m, sessions |-> [x \in ids |-> 1], before |-> ids,
                 session_id |-> 0] :
                    oc \in BOOLEAN, m \in AllocIds, ids \in SUBSET AllocIds }

\* One iteration: bump last_mux, then continue on an occupied entry or insert
\* tx (the channel of a new request, 2) into the vacant one and return its id.
add_session_loop ==
    /\ pf.fn = "add_session" /\ pf.pc = "loop"
    /\ IF pf.last_mux = IdSpace - 1 /\ pf.overflow_checks
       THEN pf' = [pf EXCEPT !.pc = "panicked"]
       ELSE LET session_id == (pf.last_mux + 1) % IdSpace
            IN  IF session_id \in DOMAIN pf.sessions
                THEN pf' = [pf EXCEPT !.last_mux = session_id]
                ELSE pf' = [pf EXCEPT !.last_mux = session_id,
                                      !.sessions = @ @@ (session_id :> 2),
                                      !.session_id = session_id,
                                      !.pc = "returned"]
    /\ UNCHANGED <<tunVars, cp, cl, fr, ep>>

AllocNext == add_session_loop

\* The loop is straight-line code under the lock: it goes on until it returns.
AllocSpec == AllocInit /\ [][AllocNext]_vars /\ WF_vars(add_session_loop)

\* ------------------------------------------------- proxy: the supervisor
\* run_for_a_while around run_connection.  pc is where run_for_a_while is:
\* at the while condition, in TcpStream::connect, in the select!, in the
\* sleep, or returned.  ended is how the last call of run_connection ended,
\* attempts the calls made so far, counted up to MaxAttempts.
SupInit ==
    /\ TunnelInit /\ cp = Off /\ cl = Off /\ fr = Off /\ ep = Off
    /\ pf = [fn |-> "run_for_a_while", pc |-> "while", running |-> TRUE,
             show_error |-> TRUE, ended |-> "none", attempts |-> 0, level |-> "none"]

\* while *running.borrow(): call run_connection, or leave the loop.
while_running ==
    /\ pf.fn = "run_for_a_while" /\ pf.pc = "while"
    /\ pf' = IF pf.running
             THEN [pf EXCEPT !.pc = "connect", !.ended = "none",
                             !.attempts = IF @ < MaxAttempts THEN @ + 1 ELSE @]
             ELSE [pf EXCEPT !.pc = "returned"]
    /\ UNCHANGED <<tunVars, cp, cl, fr, ep>>

\* The Err arm of the match: the error is logged, as an error the first time
\* or when the connection had been made, and the retry delay begins.
ErrArm(did_connect, why) ==
    [pf EXCEPT !.pc = "sleep", !.ended = why,
               !.level = IF pf.show_error \/ did_connect THEN "error" ELSE "debug",
               !.show_error = IF pf.show_error \/ did_connect THEN FALSE ELSE @]

\* TcpStream::connect fails: Err((false, e)).
connect_failed ==
    /\ pf.fn = "run_for_a_while" /\ pf.pc = "connect"
    /\ pf' = ErrArm(FALSE, "connect failure")
    /\ UNCHANGED <<tunVars, cp, cl, fr, ep>>

\* TcpStream::connect succeeds: the three futures are built and selected on.
connect_ok ==
    /\ pf.fn = "run_for_a_while" /\ pf.pc = "connect"
    /\ pf' = [pf EXCEPT !.pc = "select"]
    /\ UNCHANGED <<tunVars, cp, cl, fr, ep>>

\* rx_process ends with an I/O error (a failed read, a frame that does not
\* decode): Err((true, e)).
select_rx_error ==
    /\ pf.fn = "run_for_a_while" /\ pf.pc = "select"
    /\ pf' = ErrArm(TRUE, "I/O error")
    /\ UNCHANGED <<tunVars, cp, cl, fr, ep>>

\* The TX task (mp_process) ends: a failed write, Err((true, e)).  It cannot
\* end with Ok, rx_process holding a sender of its channel.
select_tx_exit ==
    /\ pf.fn = "run_for_a_while" /\ pf.pc = "select"
    /\ pf' = ErrArm(TRUE, "TX task exit")
    /\ UNCHANGED <<tunVars, cp, cl, fr, ep>>

\* rx_process reads the zero-length frame the mirror's TcpSender::close
\* writes: next() is Ok(None), rx_process returns Ok(()), run_connection
\* returns Ok and the match's Ok arm breaks out of the loop.
select_rx_end_of_stream ==
    /\ pf.fn = "run_for_a_while" /\ pf.pc = "select"
    /\ pf' = [pf EXCEPT !.pc = "returned", !.ended = "end-of-stream"]
    /\ UNCHANGED <<tunVars, cp, cl, fr, ep>>

\* terminated_fut: running has become false; Ok, and the loop is left.
select_terminated ==
    /\ pf.fn = "run_for_a_while" /\ pf.pc = "select" /\ ~pf.running
    /\ pf' = [pf EXCEPT !.pc = "returned", !.ended = "terminated"]
    /\ UNCHANGED <<tunVars, cp, cl, fr, ep>>

\* sleep(DOWN_LINK_RETRY_DELAY) is over: back to the while condition.
sleep_done ==
    /\ pf.fn = "run_for_a_while" /\ pf.pc = "sleep"
    /\ pf' = [pf EXCEPT !.pc = "while"]
    /\ UNCHANGED <<tunVars, cp, cl, fr, ep>>

\* The service is told to stop: the running signal becomes false.
set_running_false ==
    /\ pf.fn = "run_for_a_while" /\ pf.running /\ pf.pc # "returned"
    /\ pf' = [pf EXCEPT !.running = FALSE]
    /\ UNCHANGED <<tunVars, cp, cl, fr, ep>>

SupNext ==
    \/ while_running
    \/ connect_failed
    \/ connect_ok
    \/ select_rx_error
    \/ select_tx_exit
    \/ select_rx_end_of_stream
    \/ select_terminated
    \/ sleep_done
    \/ set_running_false

\* run_for_a_while's own steps are taken when they can be: the loop goes on,
\* the sleep ends, a connect attempt resolves, the select! sees the signal.
\* What the network and the service manager do is left unfair.
SupFairness ==
    /\ WF_vars(while_running)
    /\ WF_vars(sleep_done)
    /\ WF_vars(connect_failed \/ connect_ok)
    /\ WF_vars(select_terminated)

SupSpec == SupInit /\ [][SupNext]_vars /\ SupFairness

\* ------------------------------------------------------ session id reuse
\* One tunnel, looked at for what happens to a session id over time: the
\* mirror's table and counter, the handlers' receivers, the proxy's download
\* tasks and the messages in flight from them.  last_mux is a u32, here
\* MuxSpace values wide; MaxSessions requests miss the cache, one after the
\* other.  A message is its session_id and, as history, the session whose
\* task emitted it (src).  Each task emits at most MaxEmit messages, so the
\* sessions' channels (capacity 8) never fill.
Sessions == 1..MaxSessions

ReuseInit ==
    /\ TunnelInit /\ cp = Off /\ cl = Off /\ fr = Off /\ ep = Off
    /\ pf \in { [fn |-> "reuse", overflow_checks |-> oc, lock |-> "free",
                 last_mux |-> 0, sessions |-> EmptyMap,
                 rx |-> [x \in Sessions |-> "none"],
                 id |-> [x \in Sessions |-> 0],
                 queue |-> [x \in Sessions |-> <<>>],
                 spawned |-> [x \in Sessions |-> FALSE],
                 emits |-> [x \in Sessions |-> 0],
                 wire |-> <<>>] : oc \in BOOLEAN }

\* State::add_session from counter value m over the occupied ids: the id it
\* returns, "panic" where the increment overflows on a build with overflow
\* checks, "spin" where every id is occupied and the loop never ends.
RECURSIVE add_session_from(_, _, _, _)
add_session_from(m, occupied, overflow_checks, tried) ==
    IF m = MuxSpace - 1 /\ overflow_checks THEN [is |-> "panic", session_id |-> 0]
    ELSE IF tried = MuxSpace THEN [is |-> "spin", session_id |-> 0]
    ELSE LET session_id == (m + 1) % MuxSpace
         IN  IF session_id \in occupied
             THEN add_session_from(session_id, occupied, overflow_checks, tried + 1)
             ELSE [is |-> "id", session_id |-> session_id]

\* begin_download and, at the proxy, rx_process: the session gets its id and
\* its entry under the lock, the Request goes up the tunnel and the download
\* task is spawned with the Request's session_id.  A panic under the lock
\* poisons the Mutex; a loop that never ends keeps it.
Reuse_begin_download(x) ==
    /\ pf.fn = "reuse" /\ pf.lock = "free"
    /\ pf.rx[x] = "none"
    /\ x > 1 => pf.rx[x - 1] # "none"
    /\ LET res == add_session_from(pf.last_mux, DOMAIN pf.sessions, pf.overflow_checks, 0)
           r == res.session_id
       IN  pf' = IF res.is = "panic" THEN [pf EXCEPT !.lock = "poisoned", !.rx[x] = "failed"]
                 ELSE IF res.is = "spin" THEN [pf EXCEPT !.lock = "held", !.rx[x] = "failed"]
                 ELSE [pf EXCEPT !.last_mux = r,
                                 !.sessions = [i \in DOMAIN @ \cup {r} |-> IF i = r THEN x ELSE @[i]],
                                 !.id[x] = r,
                                 !.rx[x] = "open",
                                 !.spawned[x] = TRUE]
    /\ UNCHANGED <<tunVars, cp, cl, fr, ep>>

\* DownloadStream::send_message of the task spawned for session x: the
\* message carries the task's session_id.
Reuse_send_message(x) ==
    /\ pf.fn = "reuse"
    /\ pf.spawned[x]
    /\ pf.emits[x] < MaxEmit
    /\ pf' = [pf EXCEPT !.emits[x] = @ + 1,
                        !.wire = Append(@, [session_id |-> pf.id[x], src |-> x])]
    /\ UNCHANGED <<tunVars, cp, cl, fr, ep>>

\* The HTTP client of session x goes away: the handler's receiver is dropped.
Reuse_client_drop(x) ==
    /\ pf.fn = "reuse"
    /\ pf.rx[x] = "open"
    /\ pf' = [pf EXCEPT !.rx[x] = "dropped", !.queue[x] = <<>>]
    /\ UNCHANGED <<tunVars, cp, cl, fr, ep>>

\* process_receives, one message: the entry under the message's session_id
\* is looked up; the opcode is sent to its sender, and if that fails (the
\* receiver is gone) the entry is removed; without an entry the message is
\* dropped with a warning.
Reuse_process_receives ==
    /\ pf.fn = "reuse" /\ pf.lock = "free"
    /\ pf.wire # <<>>
    /\ LET m == Head(pf.wire)
       IN  IF m.session_id \in DOMAIN pf.sessions
           THEN LET to == pf.sessions[m.session_id]
                IN  IF pf.rx[to] = "open"
                    THEN pf' = [pf EXCEPT !.wire = Tail(@), !.queue[to] = Append(@, m.src)]
                    ELSE pf' = [pf EXCEPT !.wire = Tail(@),
                                          !.sessions = [i \in DOMAIN @ \ {m.session_id} |-> @[i]]]
           ELSE pf' = [pf EXCEPT !.wire = Tail(@)]
    /\ UNCHANGED <<tunVars, cp, cl, fr, ep>>

ReuseNext ==
    \/ \E x \in Sessions : Reuse_begin_download(x)
    \/ \E x \in Sessions : Reuse_send_message(x)
    \/ \E x \in Sessions : Reuse_client_drop(x)
    \/ Reuse_process_receives

ReuseSpec == ReuseInit /\ [][ReuseNext]_vars

\* ------------------------------------------------- proxy: download_file
\* One download task against an upstream registry that answers each URI in
\* one way: with success, with a redirect to a URI (0: no usable Location
\* header), with another status, or not at all (a hyper error).
DlUris == 1..MaxUris
UpstreamResponses ==
    { [status |-> "success", location |-> 0], [status |-> "other", location |-> 0],
      [status |-> "hyper error", location |-> 0] }
        \cup { [status |-> "redirection", location |-> u] : u \in DlUris \cup {0} }

DlInit ==
    /\ TunnelInit /\ cp = Off /\ cl = Off /\ fr = Off /\ ep = Off
    /\ pf \in { [fn |-> "download_file", upstream |-> up, uri |-> 1, pc |-> "get",
                 result |-> "none"] : up \in [DlUris -> UpstreamResponses] }

\* download_file, the head of its loop: client.get(uri) is issued and
\* awaited.
download_file_get ==
    /\ pf.fn = "download_file" /\ pf.pc = "get"
    /\ pf' = [pf EXCEPT !.pc = "response"]
    /\ UNCHANGED <<tunVars, cp, cl, fr, ep>>

\* download_file, the rest of the loop's body: a success leaves the loop for
\* do_download, a redirection with a Location replaces the uri and goes round
\* again, anything else is an error, for which rx_process' task sends
\* Complete(Err).
download_file_response ==
    /\ pf.fn = "download_file" /\ pf.pc = "response"
    /\ LET response == pf.upstream[pf.uri]
       IN  pf' = CASE response.status = "success" -> [pf EXCEPT !.pc = "do_download"]
                   [] response.status = "redirection" /\ response.location # 0 ->
                            [pf EXCEPT !.uri = response.location, !.pc = "get"]
                   [] OTHER -> [pf EXCEPT !.pc = "complete", !.result = "Err"]
    /\ UNCHANGED <<tunVars, cp, cl, fr, ep>>

\* do_download comes to its end, well or with an error, and rx_process' task
\* sends the Complete.
download_file_do_download(result) ==
    /\ pf.fn = "download_file" /\ pf.pc = "do_download"
    /\ pf' = [pf EXCEPT !.pc = "complete", !.result = result]
    /\ UNCHANGED <<tunVars, cp, cl, fr, ep>>

DlNext ==
    \/ download_file_get
    \/ download_file_response
    \/ \E result \in {"Ok", "Err"} : download_file_do_download(result)

\* The task is a spawned future that tokio keeps polling, and every request
\* is answered in the way the upstream answers it.
DlSpec ==
    /\ DlInit /\ [][DlNext]_vars
    /\ WF_vars(download_file_get)
    /\ WF_vars(download_file_response)
    /\ WF_vars(\E result \in {"Ok", "Err"} : download_file_do_download(result))

\* -------------------------------------------------------------------- C11
\* C11: when process_receives' send finds the session's receiver dropped, it
\* removes that session's entry and nothing else: every other entry, last_mux,
\* the uplink and every queue are as before; an id whose handler is done and
\* whose entry is gone never comes back into the table, so later messages for
\* it are looked up in vain, and a done handler's queue is handed nothing.
SendFails == servePc = "send" /\ servePc' = "next" /\ ~RxAlive(held.to)
ReadsUnknown ==
    /\ servePc = "next" /\ downq[curTun] # <<>>
    /\ Head(downq[curTun]).session_id \notin DOMAIN state.sessions
    /\ downq'[curTun] = Tail(downq[curTun]) /\ tun' = tun
C12_UnknownDropped ==
    [][ReadsUnknown =>
            /\ state' = state /\ queue' = queue /\ log' = log
            /\ servePc' = "next" /\ held' = held]_vars
\* The running process_receives has dropped a message as unknown, and a
\* session in the table has opcodes waiting in its queue.
C12_Witness ==
    /\ warned /\ servePc = "next"
    /\ \E r \in Req : Live(r) /\ InTable(r) /\ queue[r] # <<>>

\* -------------------------------------------------------------------- C13
\* Whenever a connection's task is not in the middle of a request (it is at
\* rx_stream.next(), or it has ended), it has sent exactly one response per
\* request it read, and the i-th response carries the sequence number of
\* the i-th request, 0 included; each connection's responses are its own.
Settled(c) == cp.pc[c] \in {"next", "done", "failed"}
C13_OneResponseEach ==
    \A c \in Conn :
        Settled(c) =>
            /\ Len(cp.out[c]) = Len(cp.read[c])
            /\ \A i \in 1..Len(cp.out[c]) : cp.out[c][i].sequence = cp.read[c][i]

\* -------------------------------------------------------------------- C14
\* A client command that received a response whose sequence differs from
\* the sequence it sent returns SequenceError and has not looked at the
\* payload of that response: nothing of it was printed or accepted.
C14_MismatchFatal ==
    (cl.pc = "done" /\ cl.resp.sequence # cl.sent.sequence) =>
        cl.result = "SequenceError" /\ ~cl.used /\ cl.printed = <<>>

\* -------------------------------------------------------------------- C15
\* Every entry check_missing evaluates is retained, after the entries
\* retained before it, exactly when <cache>/name/version is not a regular
\* file at that moment (a directory there counts as missing), and the
\* evaluation leaves the cache as it is.
IsRegularFile(pk) == cp.fsName[pk.name] = "dir" /\ cp.fs[pk].kind = "file"
Evaluates(c) == cp.pc[c] = "check" /\ cp'.idx[c] = cp.idx[c] + 1
C15_ExactlyNonFiles ==
    [][\A c \in Conn :
        Evaluates(c) =>
            LET id == cp.req[c].payload.packages[cp.idx[c] + 1]
            IN  /\ cp'.kept[c] = IF IsRegularFile(id) THEN cp.kept[c]
                                 ELSE Append(cp.kept[c], id)
                /\ cp'.fs = cp.fs /\ cp'.fsName = cp.fsName]_vars

\* -------------------------------------------------------------------- C16
\* An UploadCrate for a path that held a completely written file when the
\* request was read (a sequential re-upload, with the same or with other
\* content) never creates or writes anything: the file keeps the bytes it
\* had, the task does not fail, and the response is UploadCrate with the
\* request's sequence.
Reupload(c) ==
    /\ cp.pc[c] # "none"
    /\ cp.req[c].payload.type = "UploadCrate"
    /\ cp.before[c].kind = "file"
C16_Idempotent ==
    \A c \in Conn :
        Reupload(c) =>
            /\ cp.fs[cp.req[c].payload.package] = cp.before[c]
            /\ cp.pc[c] \notin {"up_mkdir", "up_create", "up_write", "failed"}
            /\ Len(cp.out[c]) = Len(cp.read[c]) =>
                    cp.out[c][Len(cp.out[c])] =
                        Overlapped(cp.req[c].sequence, Ok(Response_UploadCrate))
\* A second connection re-uploaded, with other content, what the first had
\* stored, and has been answered.
C16_Witness ==
    \E c, c2 \in Conn :
        /\ c # c2 /\ Reupload(c)
        /\ cp.pc[c] = "next" /\ Len(cp.out[c]) = Len(cp.read[c])
        /\ cp.out[c2] # <<>> /\ cp.req[c2].payload.type = "UploadCrate"
        /\ cp.req[c2].payload.package = cp.req[c].payload.package
        /\ cp.before[c].bytes = cp.req[c2].payload.content
        /\ cp.req[c].payload.content # cp.before[c].bytes

\* -------------------------------------------------------------------- C17
\* When two connections have uploaded the same (name, version) with
\* different contents at the same time (neither found a finished file when
\* its request was read) and both have been answered, the file holds the
\* complete content of exactly one of the two uploads.
Answered(c) == cp.pc[c] = "next" /\ Len(cp.out[c]) = Len(cp.read[c])
FreshUpload(c) == cp.req[c].payload.type = "UploadCrate" /\ cp.before[c].kind = "none"
C17_FirstWriterWins ==
    \A c1, c2 \in Conn :
        (/\ c1 # c2
         /\ Answered(c1) /\ FreshUpload(c1)
         /\ Answered(c2) /\ FreshUpload(c2)
         /\ cp.req[c1].payload.package = cp.req[c2].payload.package
         /\ cp.req[c1].payload.content # cp.req[c2].payload.content)
            => cp.fs[cp.req[c1].payload.package].bytes
                    \in {cp.req[c1].payload.content, cp.req[c2].payload.content}

\* -------------------------------------------------------------------- C18
\* A cache file is never visible with part of its content: while a task
\* is writing an upload, <cache>/name/version does not exist as a file
\* holding a strict prefix of the uploaded bytes, and an HTTP cache hit
\* never serves such a prefix.
StrictPrefix(p, q) == Len(p) < Len(q) /\ SubSeq(q, 1, Len(p)) = p
C18_NeverPartial ==
    \A c \in Conn :
        (cp.pc[c] = "up_write") =>
            LET pk == cp.req[c].payload.package
                content == cp.req[c].payload.content
            IN  /\ ~(cp.fs[pk].kind = "file" /\ StrictPrefix(cp.fs[pk].bytes, content))
                /\ ~(cp.served.package = pk /\ StrictPrefix(cp.served.bytes, content))

\* -------------------------------------------------------------------- C19
\* A step in which a filesystem call of upload_crate fails ends with a
\* response sent on that connection, carrying the request's sequence
\* number and an error payload, and the task back at rx_stream.next().
IoError(c) ==
    \/ cp.pc[c] = "up_mkdir" /\ cp.fsName[cp.req[c].payload.package.name] # "none"
    \/ cp.pc[c] = "up_create" /\ cp.fs[cp.req[c].payload.package].kind = "dir"
C19_ErrorAnswered ==
    [][\A c \in Conn :
        (IoError(c) /\ cp'.pc[c] # cp.pc[c]) =>
            /\ cp'.pc[c] = "next"
            /\ Len(cp'.out[c]) = Len(cp.out[c]) + 1
            /\ cp'.out[c][Len(cp'.out[c])].sequence = cp.req[c].sequence
            /\ ~cp'.out[c][Len(cp'.out[c])].payload.ok]_vars

\* -------------------------------------------------------------------- C20
\* The calls of next return the values passed to send, in the order sent,
\* each equal to the value sent, and then, once the sender has closed, the
\* end marker None and nothing after it; when every byte written has been
\* read nothing is missing.  No value serializes to zero bytes, so a
\* zero-length frame comes from close only.
Expected ==
    [i \in 1..Len(fr.sent) |-> Some(fr.sent[i])] \o (IF fr.open THEN <<>> ELSE <<None>>)
C20_RoundTrip ==
    /\ Len(fr.got) <= Len(Expected)
    /\ fr.got = SubSeq(Expected, 1, Len(fr.got))
    /\ fr.wire = <<>> => fr.got = Expected
    /\ fr.ended <=> (fr.got # <<>> /\ fr.got[Len(fr.got)] = None)
    /\ \A v \in FrameValues : serialize(v) # <<>>
\* Two or more values, one with sequence 256 and one carrying a package
\* list, were sent, the sender closed, and the receiver has read to the end.
C20_Witness ==
    /\ fr.ended /\ fr.wire = <<>>
    /\ Len(fr.sent) >= 2
    /\ \E i \in 1..Len(fr.sent) : fr.sent[i].sequence = 256
    /\ \E i \in 1..Len(fr.sent) :
        /\ fr.sent[i].payload.ok
        /\ fr.sent[i].payload.value.type = "CheckMissing"
        /\ fr.sent[i].payload.value.packages # <<>>

\* -------------------------------------------------------------------- C21
\* The end point and the server frame alike: what the server's receiver
\* has returned is the envelopes passed to send_request, in order, followed
\* after close by the clean end of stream, and what recv_response has
\* returned is the envelopes the server sent, in order; no read fails.
EpExpected ==
    [i \in 1..Len(ep.reqs) |-> Some(ep.reqs[i])] \o (IF ep.open THEN <<>> ELSE <<None>>)
C21_SameFraming ==
    /\ Len(ep.srvGot) <= Len(EpExpected)
    /\ ep.srvGot = SubSeq(EpExpected, 1, Len(ep.srvGot))
    /\ ep.c2s = <<>> => ep.srvGot = EpExpected
    /\ Len(ep.cliGot) <= Len(ep.resps)
    /\ \A i \in 1..Len(ep.cliGot) : ep.cliGot[i] = Some(ep.resps[i])

\* -------------------------------------------------------------------- C22
\* Routing: a request that is not a GET is answered 400; a GET without a
\* path or with a query string is answered 400; any other GET goes on to
\* the download of (package, version) exactly when its path is
\* /api/v1/crates/ package / version /download with no slash in package
\* and none in version, and is answered 404 otherwise.
NoSlash(str) == \A i \in 1..Len(str) : str[i] # "/"
C22_Routing ==
    pf.fn = "handler" =>
        LET path == pf.uri.path
            wellFormed(pk, vs) ==
                /\ NoSlash(pk) /\ NoSlash(vs)
                /\ path = Str_api_v1_crates \o pk \o <<"/">> \o vs \o Str_download
            parts == {<<SubSeq(path, 16, i), SubSeq(path, i + 2, Len(path) - 9)>> :
                        i \in 15..Len(path)}
        IN  IF pf.method # "GET" THEN pf.result = ErrorResponse(400)
            ELSE IF ~pf.uri.pnq \/ pf.uri.query.some THEN pf.result = ErrorResponse(400)
            ELSE IF \E pv \in parts : wellFormed(pv[1], pv[2])
            THEN \E pv \in parts : wellFormed(pv[1], pv[2]) /\ pf.result = Download(pv[1], pv[2])
            ELSE pf.result = ErrorResponse(404)
\* A GET of /api/v1/crates/<package>/<version>/download with both parts
\* non-empty went on to its download.
C22_Witness ==
    /\ pf.fn = "handler"
    /\ pf.result.kind = "download"
    /\ pf.result.package # <<>> /\ pf.result.version # <<>>

\* -------------------------------------------------------------------- C23
\* The step in which proxy_download takes the first item of the session's
\* queue and answers: if the item is Init(headers), the response is a 200
\* whose Content-Type and Content-Length are those of headers and whose
\* body is the rest of the stream; if it is anything else, the request is
\* answered 500.
AnswersFirst(r) == pc[r] = "first" /\ pc'[r] # "first" /\ status'[r] # status[r]
C23_FirstItem ==
    [][\A r \in Req :
        AnswersFirst(r) =>
            IF Head(queue[r]).op = "Init"
            THEN /\ pc'[r] = "stream" /\ status'[r] = 200
                 /\ respHeaders'[r].content_type = Head(queue[r]).arg.content_type
                 /\ respHeaders'[r].content_length = Head(queue[r]).arg.content_length
            ELSE pc'[r] = "done" /\ status'[r] = 500 /\ respHeaders'[r] = NoHeaders]_vars
\* One request is streaming a 200 with the upstream's headers, the other
\* was answered 500.
C23_Witness ==
    \E r1, r2 \in Req :
        /\ pc[r1] = "stream" /\ status[r1] = 200 /\ respHeaders[r1] = UpstreamHeaders(r1)
        /\ pc[r2] = "done" /\ status[r2] = 500

\* -------------------------------------------------------------------- C24
\* C24: after the Init, once the body stream has consumed a Complete(Ok) it
\* is finished: whatever arrives afterwards, it yields no further item.
AfterCompleteOk == \E i \in 1..Len(pf.taken) : IsCompleteOk(pf.taken[i])
C24_EndsBody ==
    [][(pf.fn = "body" /\ AfterCompleteOk) => pf'.items = pf.items]_vars

\* -------------------------------------------------------------------- C25
\* C25: after the Init, a Complete(Err) and every out-of-order opcode (a
\* second Init, a Chunk or a Complete that follows a Complete) makes the body
\* stream yield a stream error.
AfterComplete == \E i \in 1..Len(pf.taken) : pf.taken[i].op = "Complete"
OutOfOrder(oc) ==
    \/ oc.op = "Init"
    \/ oc.op \in {"Chunk", "Complete"} /\ AfterComplete
C25_StreamError ==
    [][(pf.fn = "body" /\ pf.rest # <<>> /\ pf'.rest = Tail(pf.rest)
            /\ (IsCompleteErr(Head(pf.rest)) \/ OutOfOrder(Head(pf.rest))))
        => /\ pf'.items = Append(pf.items, [item |-> "Err"])
           /\ pf'.ended]_vars

\* -------------------------------------------------------------------- C26
\* C26: every message a download task has put on the TX channel (Init, Chunk
\* or Complete) carries the session id of the Request that started the task,
\* however the tasks of one connection interleave.
C26_CarriesSessionId ==
    \A t \in Tun : \A i \in 1..Len(downq[t]) :
        /\ downq[t][i].opcode.src \in Req
        /\ downq[t][i].session_id = sid[downq[t][i].opcode.src]
C26_Witness ==
    \E t \in Tun :
        /\ Len(downq[t]) >= 3
        /\ downq[t][1].opcode.src = 1 /\ downq[t][1].opcode.op = "Init"
        /\ downq[t][2].opcode.src = 2 /\ downq[t][2].opcode.op = "Init"
        /\ downq[t][3].opcode.src = 1 /\ downq[t][3].opcode.op = "Complete"
        /\ downq[t][1].session_id # downq[t][2].session_id

\* -------------------------------------------------------------------- C27
\* C27: a download task emits at most one Complete and nothing after it; a
\* task that has ended with its TX channel alive has emitted one.  The
\* Complete is Ok only after the Init and every block read so far went out as
\* a Chunk, a clean end of the body gives Ok and a failure (of the request,
\* its headers or a read of the body) gives Err, which is all an error shows.
EndsBody(r) == task[r] = "body" /\ task'[r] = "done" /\ TxAlive(r)
C27_OneComplete ==
    /\ [](\A r \in Req :
            LET e == emitted[r]
                n == Len(e)
            IN  /\ \A i \in 1..n : e[i].op = "Complete" => (i = n /\ e[i].arg \in {"Ok", "Err"})
                /\ (task[r] = "done" /\ TxAlive(r)) => (n >= 1 /\ e[n].op = "Complete")
                /\ (n >= 1 /\ IsCompleteOk(e[n])) =>
                        /\ n = taskRead[r] + 2
                        /\ e[1] = Init_(UpstreamHeaders(r), r)
                        /\ \A i \in 2..(n - 1) : e[i] = Chunk(UpstreamBlock(r, i - 1), r))
    /\ [][\A r \in Req :
            /\ (do_download_eof(r) /\ EndsBody(r)) => emitted'[r] = Append(emitted[r], Complete("Ok", r))
            /\ ((do_download_error(r) \/ download_failed(r)) /\ task'[r] = "done" /\ TxAlive(r))
                    => emitted'[r] = Append(emitted[r], Complete("Err", r))]_vars
C27_Witness ==
    /\ task[1] = "done" /\ TxAlive(1) /\ IsCompleteOk(emitted[1][Len(emitted[1])])
    /\ Len(emitted[1]) = MaxBlocks + 2
    /\ task[2] = "done" /\ TxAlive(2) /\ emitted[2] = <<Init_(UpstreamHeaders(2), 2), Complete("Err", 2)>>

\* -------------------------------------------------------------------- C30
\* C30: when the send on the uplink fails after begin_download allocated a
\* session (UpLinkReset), that session's entry is not in the session table
\* once begin_download has returned.  The failures looked at are those that
\* follow another request's send on the same uplink, the send whose write
\* ended the writer task.
UpLinkReset(r) ==
    /\ pc[r] = "sending" /\ pc'[r] = "done"
    /\ \E q \in Req : q # r /\ pc[q] = "first" /\ heldUp[q] = heldUp[r]
C30_NoEntryLeft ==
    [][\A r \in Req : UpLinkReset(r) => ~InTable(r)']_vars

\* -------------------------------------------------------------------- C29
\* C29: add_session does not fail when last_mux is at its largest value but
\* wraps; the id it returns was not in the table, is in it afterwards with
\* every entry that was there, and is last_mux; and it does return whenever
\* the table did not hold every id.
TableFull == pf.before = AllocIds
C29_Wraparound ==
    /\ [](pf.fn = "add_session" =>
            /\ pf.pc # "panicked"
            /\ pf.pc = "returned" =>
                    /\ pf.session_id \notin pf.before
                    /\ DOMAIN pf.sessions = pf.before \cup {pf.session_id}
                    /\ pf.sessions[pf.session_id] = 2
                    /\ \A x \in pf.before : pf.sessions[x] = 1
                    /\ pf.last_mux = pf.session_id)
    /\ (pf.fn = "add_session" /\ ~TableFull) ~> (pf.pc = "returned")

\* -------------------------------------------------------------------- C28
\* C28: while the running signal is true, every end of a call of
\* run_connection (a connect failure, an I/O error, the TX task's exit, the
\* mirror's end of stream) is followed by another connection attempt.
Ended == pf.ended \in {"connect failure", "I/O error", "TX task exit", "end-of-stream"}
C28_RetriesForever ==
    (pf.fn = "run_for_a_while" /\ Ended /\ pf.running) ~> (pf.pc = "connect" \/ ~pf.running)

\* -------------------------------------------------------------------- C31
\* C31: every opcode in a session's queue was emitted by the download task
\* started for that session, also when the session's id was held before by a
\* session that was removed while its task was still emitting.
C31_NoCrossSession ==
    pf.fn = "reuse" =>
        \A x \in Sessions : \A i \in 1..Len(pf.queue[x]) : pf.queue[x][i] = x

\* -------------------------------------------------------------------- C32
\* C32: whatever the upstream answers, chains and cycles of redirects
\* included, a download task comes to stop issuing GETs and sends its
\* Complete.
C32_Terminates ==
    (pf.fn = "download_file") ~> (pf.pc = "complete")

====
